---- MODULE Spec2Model ----
(***************************************************************************)
(* State-machine model of the gaze keyboard engine of                      *)
(* src/src/GazeTracking.tsx (component GazeKeyboard): gaze smoothing, the  *)
(* per-frame tick (bounds gate, velocity/fixation, likelihood, posterior,  *)
(* hysteresis, interest accumulation, selection) and the prior update.     *)
(*                                                                         *)
(* Numbers.  The program computes in floating point; the model computes    *)
(* in exact rational arithmetic.  A rational is a pair <<n, d>> in lowest  *)
(* terms with d > 0.  Two quantities are kept to a fixed resolution: the   *)
(* Gaussian kernel (see Gaussian) and the gaze velocity (see Hundredths).  *)
(* Time is counted in thirds of a millisecond, so that a frame of 1/60 s   *)
(* is a whole number of units.                                             *)
(***************************************************************************)
EXTENDS Integers, Sequences, FiniteSets, TLC

(***************************************************************************)
(* Rational arithmetic                                                     *)
(***************************************************************************)
Abs(x) == IF x < 0 THEN -x ELSE x

RECURSIVE Gcd(_, _)
Gcd(a, b) == IF b = 0 THEN a ELSE Gcd(b, a % b)

Norm(n, d) ==
    IF n = 0 THEN <<0, 1>>
    ELSE LET g == Gcd(Abs(n), Abs(d))
             s == IF d < 0 THEN -1 ELSE 1
         IN  <<(s * n) \div g, (s * d) \div g>>

Zero == <<0, 1>>
One == <<1, 1>>
FromInt(i) == <<i, 1>>

RAdd(a, b) ==
    IF a[2] = b[2] THEN Norm(a[1] + b[1], a[2])
    ELSE LET g == Gcd(a[2], b[2])
         IN  Norm(a[1] * (b[2] \div g) + b[1] * (a[2] \div g), (a[2] \div g) * b[2])
RNeg(a) == <<-a[1], a[2]>>
RSub(a, b) == RAdd(a, RNeg(b))
RMul(a, b) ==
    LET g1 == Gcd(Abs(a[1]), b[2])
        g2 == Gcd(Abs(b[1]), a[2])
    IN  IF a[1] = 0 \/ b[1] = 0 THEN Zero
        ELSE <<(a[1] \div g1) * (b[1] \div g2), (a[2] \div g2) * (b[2] \div g1)>>
RDiv(a, b) == RMul(a, IF b[1] < 0 THEN <<-b[2], -b[1]>> ELSE <<b[2], b[1]>>)
RLess(a, b) ==
    IF a[2] = b[2] THEN a[1] < b[1]
    ELSE LET g == Gcd(a[2], b[2])
         IN  a[1] * (b[2] \div g) < b[1] * (a[2] \div g)
RLeq(a, b) == ~RLess(b, a)
RMin(a, b) == IF RLess(b, a) THEN b ELSE a
RMax(a, b) == IF RLess(a, b) THEN b ELSE a
RAbs(a) == <<Abs(a[1]), a[2]>>
\* floor of a non-negative rational
RFloor(a) == a[1] \div a[2]

(***************************************************************************)
(* Optional values: <<>> is null, <<v>> is a present value.  A key id that *)
(* is null is NoKey; a timestamp that is null is NullTime.                 *)
(***************************************************************************)
Null == <<>>
Some(v) == <<v>>
NoKey == "null"
NullTime == -1
\* JavaScript truthiness of a number | null: null and 0 are both falsy
Truthy(t) == t # NullTime /\ t # 0

(***************************************************************************)
(* Tuning constants, src/src/GazeTracking.tsx lines 6-60                   *)
(***************************************************************************)
SIGMA_RATIO == <<1, 2>>
SELECTION_THRESHOLD == <<3, 5>>
PRIOR_K == 1
GAZE_SMOOTHING_ALPHA == <<2, 5>>
GAZE_HISTORY_SIZE == 3
MIN_POSTERIOR_FOR_FEEDBACK == <<3, 20>>
SPECIAL_KEY_LIKELIHOOD_BOOST == <<3, 4>>
SPECIAL_KEY_MIN_PRIOR == <<3, 4>>
ACTIVE_KEY_SIGMA_EXPANSION == <<3, 2>>
HYSTERESIS_THRESHOLD == <<3, 25>>
MIN_DWELL_BEFORE_SWITCH == <<2, 25>>
VELOCITY_THRESHOLD == 300
VELOCITY_SMOOTHING_ALPHA == <<3, 10>>
MIN_FIXATION_DURATION == <<3, 25>>
\* literals of the tick and of triggerSelection
MAX_DT == <<1, 10>>
BOUNDS_MARGIN == 50
\* the floor 1e-10 of the weighted likelihood sum.  10^10 exceeds the integer
\* range, so the floor is held as 10^5, the root of its inverse:
\* n/d < 1e-10 iff n <= (d - 1) div 10^10, and x / 1e-10 is x * 10^5 * 10^5
EPSILON_INVERSE_ROOT == 100000
BelowEpsilon(x) == x[1] <= ((x[2] - 1) \div EPSILON_INVERSE_ROOT) \div EPSILON_INVERSE_ROOT
DivByEpsilon(x) ==
    RMul(RMul(x, <<EPSILON_INVERSE_ROOT, 1>>), <<EPSILON_INVERSE_ROOT, 1>>)
SCAN_DECAY == <<3, 10>>
SELECTION_DAMPING == <<1, 2>>
DEFAULT_SIGMA == 40

\* clock units per second: the clock counts thirds of a millisecond
UnitsPerSecond == 3 * 1000
Seconds(units) == Norm(units, UnitsPerSecond)

(***************************************************************************)
(* Key layout, src/src/constants/index.ts.  The model keeps four keys of   *)
(* the layout in layout order: the first key (an ordinary character key),  *)
(* a second ordinary key, a special key and the last key (the suggestion   *)
(* half of the space bar, special with a role).                            *)
(***************************************************************************)
ALL_KEYS ==
    << [id |-> "row1-1", label |-> "1", special |-> FALSE, role |-> "none"],
       [id |-> "r2-q", label |-> "Q", special |-> FALSE, role |-> "none"],
       [id |-> "r3-back", label |-> "back", special |-> TRUE, role |-> "none"],
       [id |-> "r5-space-suggest", label |-> "", special |-> TRUE,
        role |-> "space-suggest"] >>

N == Len(ALL_KEYS)
KeyIndex == 1..N
KeyIds == {ALL_KEYS[i].id : i \in KeyIndex}
KeyDefOf(id) == ALL_KEYS[CHOOSE i \in KeyIndex : ALL_KEYS[i].id = id]

(***************************************************************************)
(* The rendered keyboard: what getBoundingClientRect returns for each key  *)
(* element.  One row of keys 20 px high with 20 px gaps (styles.row.gap);  *)
(* ordinary keys are 60 px wide, the special keys wider.                   *)
(***************************************************************************)
DomRect(id) ==
    CASE id = "row1-1" -> [left |-> 0, top |-> 200, width |-> 60, height |-> 20]
      [] id = "r2-q" -> [left |-> 80, top |-> 200, width |-> 60, height |-> 20]
      [] id = "r3-back" -> [left |-> 160, top |-> 200, width |-> 100, height |-> 20]
      [] id = "r5-space-suggest" ->
            [left |-> 280, top |-> 200, width |-> 220, height |-> 20]

RectRight(r) == r.left + r.width
RectBottom(r) == r.top + r.height
Min(a, b) == IF a < b THEN a ELSE b
Max(a, b) == IF a < b THEN b ELSE a

(***************************************************************************)
(* Bounds of the exploration                                               *)
(***************************************************************************)
\* the clock stops advancing here (thirds of a millisecond)
MaxTime == 3300
\* number of gaze results the tracker delivers
MaxSamples == 3

\* time between two frames, in clock units: 0.12 s in Spec (the time delta
\* is clamped), 0.06 s in SpecFine (shorter than the minimum dwell)
TickDeltas == {360}
FineDeltas == {180}
\* the clock stops here in SpecFine
MaxTimeFine == 1500
\* a longer session with fewer gaze results (SpecLong): the clock limit and
\* the number of results
MaxTimeLong == 5100
MaxSamplesLong == 1
\* a tick is followed only while every interest has a denominator up to this
MaxDenominator == 100000
\* page-load time at which the component mounts
MountTime == 30
\* time between two frames of a 60 Hz display, 1/60 s in clock units (SpecDwell),
\* and the clock limit of that specification
FrameUnits == UnitsPerSecond \div 60
MaxTimeDwell == 2030

\* gaze results: d.state = 0 with a client position (the centre of the second
\* key; a point left of the window, outside the keyboard), or tracking lost
PointKey == [x |-> <<110, 1>>, y |-> <<210, 1>>]
PointOut == [x |-> <<-290, 1>>, y |-> <<210, 1>>]
GazeResults == {Some(PointKey), Some(PointOut), Null}

(***************************************************************************)
(* State                                                                   *)
(***************************************************************************)
VARIABLES
    now,                     \* performance.now()
    running, isCalibrating,  \* React state
    rawGazePoint, smoothedGaze, activeKeyId, isFixating, txt,
    smoothingPending,        \* the smoothing effect is queued for rawGazePoint
    rafPending,              \* a requestAnimationFrame(tick) callback is queued
    rafQueued,               \* frame callbacks queued by requestAnimationFrame(tick)
    onResultInstalled,       \* win.OnResult has been assigned
    samples,                 \* gaze results delivered so far
    keyState,                \* keyStateRef.current
    smoothedGazeRef, gazeHistoryRef, sigmaRef, lastFrameTime,
    previousActiveKeyRef, lastGazeRef, smoothedVelocityRef,
    fixationStartTimeRef, isFixatingRef, currentKeyDwellStartRef,
    lastTick,                \* what the last tick computed (its locals)
    carried                  \* history: keys whose interest stayed above 0 since
                             \* before the latest call of triggerSelection

vars ==
    << now, running, isCalibrating, rawGazePoint, smoothedGaze, activeKeyId,
       isFixating, txt, smoothingPending, rafPending, rafQueued, onResultInstalled, samples,
       keyState, smoothedGazeRef, gazeHistoryRef, sigmaRef, lastFrameTime,
       previousActiveKeyRef, lastGazeRef, smoothedVelocityRef,
       fixationStartTimeRef, isFixatingRef, currentKeyDwellStartRef, lastTick,
       carried >>

\* the refs and state that resetGazeState, the no-gaze branch and handleClear share
trackingVars ==
    << previousActiveKeyRef, lastGazeRef, smoothedVelocityRef,
       fixationStartTimeRef, isFixatingRef, currentKeyDwellStartRef >>

UniformPrior == Norm(1, N)

InitialKeyState ==
    [id \in KeyIds |->
        [interest |-> Zero, selectionCount |-> 0, prior |-> UniformPrior,
         rect |-> Null, lastPosterior |-> Zero]]

ZeroByKey == [id \in KeyIds |-> Zero]

\* no tick has run since the last other step
NoTick ==
    [branch |-> "none", actualDt |-> Zero, currentActiveKey |-> NoKey,
     dwellStart |-> NullTime, isLowVelocity |-> FALSE, total |-> Zero,
     posteriors |-> ZeroByKey, bestKeyId |-> NoKey, finalActiveKeyId |-> NoKey,
     fixating |-> FALSE, selected |-> NoKey]

\* triggerSelection, lines 690-706, zeroes the selected key and halves the
\* others: after a step that fired a selection the keys that still hold
\* interest hold it from before that selection; after any other step a key
\* stays in the set while its interest stays above 0
Carry(c, ks, t) ==
    IF t.selected # NoKey
    THEN {id \in KeyIds \ {t.selected} : ks[id].interest[1] > 0}
    ELSE {id \in c : ks[id].interest[1] > 0}

Init ==
    /\ now = MountTime
    /\ running = FALSE
    /\ isCalibrating = FALSE
    /\ rawGazePoint = Null
    /\ smoothedGaze = Null
    /\ activeKeyId = NoKey
    /\ isFixating = FALSE
    /\ txt = <<>>
    /\ smoothingPending = FALSE
    /\ rafPending = TRUE
    /\ rafQueued = 1
    /\ onResultInstalled = FALSE
    /\ samples = 0
    /\ keyState = InitialKeyState
    /\ smoothedGazeRef = Null
    /\ gazeHistoryRef = <<>>
    /\ sigmaRef = FromInt(DEFAULT_SIGMA)
    /\ lastFrameTime = MountTime
    /\ previousActiveKeyRef = NoKey
    /\ lastGazeRef = Null
    /\ smoothedVelocityRef = Zero
    /\ fixationStartTimeRef = NullTime
    /\ isFixatingRef = FALSE
    /\ currentKeyDwellStartRef = NullTime
    /\ lastTick = NoTick
    /\ carried = {}

\* requestAnimationFrame(tick), lines 364, 407, 673 and 676, and
\* cancelAnimationFrame(rafId), line 677, on the number of queued callbacks
RequestFrame(queued) == queued + 1
\* a cancellation that removes nothing
CancelFrameNothing(queued) == queued
CancelFrame(queued) == IF queued > 0 THEN queued - 1 ELSE queued

(***************************************************************************)
(* resetGazeState, lines 232-254                                           *)
(***************************************************************************)
ResetInterest(ks) == [id \in KeyIds |-> [ks[id] EXCEPT !.interest = Zero]]

\* the reset that leaves the gaze history buffer as it is
ResetGazeStateKeepHistory ==
    /\ rawGazePoint' = Null
    /\ smoothedGaze' = Null
    /\ activeKeyId' = NoKey
    /\ isFixating' = FALSE
    /\ smoothedGazeRef' = Null
    /\ previousActiveKeyRef' = NoKey
    /\ lastGazeRef' = Null
    /\ smoothedVelocityRef' = Zero
    /\ fixationStartTimeRef' = NullTime
    /\ isFixatingRef' = FALSE
    /\ gazeHistoryRef' = gazeHistoryRef
    /\ currentKeyDwellStartRef' = NullTime
    \* the smoothing effect queued by setRawGazePoint(null) finds the
    \* buffer and the smoothed point already cleared
    /\ smoothingPending' = FALSE

ResetGazeState ==
    /\ rawGazePoint' = Null
    /\ smoothedGaze' = Null
    /\ activeKeyId' = NoKey
    /\ isFixating' = FALSE
    /\ smoothedGazeRef' = Null
    /\ previousActiveKeyRef' = NoKey
    /\ lastGazeRef' = Null
    /\ smoothedVelocityRef' = Zero
    /\ fixationStartTimeRef' = NullTime
    /\ isFixatingRef' = FALSE
    /\ gazeHistoryRef' = <<>>
    /\ currentKeyDwellStartRef' = NullTime
    \* the smoothing effect queued by setRawGazePoint(null) finds the
    \* buffer and the smoothed point already cleared
    /\ smoothingPending' = FALSE

(***************************************************************************)
(* updateKeyRects, lines 174-183: every rendered key caches its rectangle  *)
(***************************************************************************)
UpdateKeyRects(ks) == [id \in KeyIds |-> [ks[id] EXCEPT !.rect = Some(DomRect(id))]]

(***************************************************************************)
(* Start Tracking button, lines 807-809, and the effects of the render     *)
(* with running = true: the cleanup of the previous GazeCloud effect       *)
(* (lines 291-297), the rectangle cache (lines 185-196, the keyboard is    *)
(* still rendered), setIsCalibrating(true) and the handlers (259-285).     *)
(***************************************************************************)
Start ==
    /\ ~running
    /\ ~isCalibrating
    /\ running' = TRUE
    /\ ResetGazeState
    /\ keyState' = UpdateKeyRects(ResetInterest(keyState))
    /\ isCalibrating' = TRUE
    /\ onResultInstalled' = TRUE
    /\ rafPending' = TRUE
    \* the effect cleanup cancels the queued callback, the effect requests one
    /\ rafQueued' = RequestFrame(CancelFrame(rafQueued))
    /\ lastTick' = NoTick
    /\ UNCHANGED <<now, txt, samples, sigmaRef, lastFrameTime>>
    /\ carried' = Carry(carried, keyState', lastTick')

(***************************************************************************)
(* win.OnCalibrationComplete, lines 278-281, and the render that follows:  *)
(* the keyboard is mounted and the rectangle effect caches every key.      *)
(***************************************************************************)
CalibrationComplete ==
    /\ running
    /\ isCalibrating
    /\ isCalibrating' = FALSE
    /\ keyState' = UpdateKeyRects(keyState)
    /\ rafPending' = TRUE
    \* the effect cleanup cancels the queued callback, the effect requests one
    /\ rafQueued' = RequestFrame(CancelFrame(rafQueued))
    /\ lastTick' = NoTick
    /\ UNCHANGED <<now, running, rawGazePoint, smoothedGaze, activeKeyId, isFixating,
                   txt, smoothingPending, onResultInstalled, samples, smoothedGazeRef,
                   gazeHistoryRef, sigmaRef, lastFrameTime, trackingVars>>
    /\ carried' = Carry(carried, keyState', lastTick')

(***************************************************************************)
(* Stop Tracking button: the effect cleanup and the effect body both call  *)
(* resetGazeState (lines 286-297).  The button is rendered only while not  *)
(* calibrating (line 805).                                                 *)
(***************************************************************************)
Stop ==
    /\ running
    /\ ~isCalibrating
    /\ running' = FALSE
    /\ ResetGazeState
    /\ keyState' = ResetInterest(keyState)
    /\ rafPending' = TRUE
    \* the effect cleanup cancels the queued callback, the effect requests one
    /\ rafQueued' = RequestFrame(CancelFrame(rafQueued))
    /\ lastTick' = NoTick
    /\ UNCHANGED <<now, isCalibrating, txt, onResultInstalled, samples, sigmaRef,
                   lastFrameTime>>
    /\ carried' = Carry(carried, keyState', lastTick')

(***************************************************************************)
(* updateSigma, lines 153-170: the timeout armed at mount and at every     *)
(* change of running.  It finds the first key rendered when it fires      *)
(* while tracking is stopped; armed by Start, it fires during calibration  *)
(* and finds no key.                                                       *)
(***************************************************************************)
UpdateSigma ==
    /\ ~running
    /\ ~isCalibrating
    /\ LET rect == DomRect(ALL_KEYS[1].id)
           keySize == Min(rect.width, rect.height)
       IN  sigmaRef' = RMul(FromInt(keySize), SIGMA_RATIO)
    /\ lastTick' = NoTick
    /\ UNCHANGED <<now, running, isCalibrating, rawGazePoint, smoothedGaze,
                   activeKeyId, isFixating, txt, smoothingPending, rafPending, rafQueued,
                   onResultInstalled, samples, keyState, smoothedGazeRef,
                   gazeHistoryRef, lastFrameTime, trackingVars>>
    /\ carried' = Carry(carried, keyState', lastTick')

(***************************************************************************)
(* win.OnResult, lines 268-276                                             *)
(***************************************************************************)
OnResult(d, limit) ==
    /\ onResultInstalled
    /\ samples < limit
    /\ samples' = samples + 1
    /\ rawGazePoint' = d
    \* setRawGazePoint(null) on a null state schedules no render
    /\ smoothingPending' = (smoothingPending \/ d # Null \/ rawGazePoint # Null)
    /\ lastTick' = NoTick
    /\ UNCHANGED <<now, running, isCalibrating, smoothedGaze, activeKeyId, isFixating,
                   txt, rafPending, rafQueued, onResultInstalled, keyState, smoothedGazeRef,
                   gazeHistoryRef, sigmaRef, lastFrameTime, trackingVars>>
    /\ carried' = Carry(carried, keyState', lastTick')

(***************************************************************************)
(* Gaze smoothing effect, lines 304-338                                    *)
(***************************************************************************)
RECURSIVE SumX(_, _)
SumX(history, i) == IF i = 0 THEN Zero ELSE RAdd(SumX(history, i - 1), history[i].x)
RECURSIVE SumY(_, _)
SumY(history, i) == IF i = 0 THEN Zero ELSE RAdd(SumY(history, i - 1), history[i].y)

\* the history buffer filled from the front, the oldest sample last
PushHistoryNewestFirst(history, p) ==
    LET pushed == <<p>> \o history
    IN  IF Len(pushed) > GAZE_HISTORY_SIZE THEN SubSeq(pushed, 1, GAZE_HISTORY_SIZE)
        ELSE pushed

PushHistory(history, p) ==
    LET pushed == Append(history, p)
    IN  IF Len(pushed) > GAZE_HISTORY_SIZE THEN Tail(pushed) ELSE pushed

Smooth(prev, history) ==
    LET avgX == RDiv(SumX(history, Len(history)), FromInt(Len(history)))
        avgY == RDiv(SumY(history, Len(history)), FromInt(Len(history)))
        beta == RSub(One, GAZE_SMOOTHING_ALPHA)
    IN  IF prev = Null THEN [x |-> avgX, y |-> avgY]
        ELSE [x |-> RAdd(RMul(GAZE_SMOOTHING_ALPHA, avgX), RMul(beta, prev[1].x)),
              y |-> RAdd(RMul(GAZE_SMOOTHING_ALPHA, avgY), RMul(beta, prev[1].y))]

\* the smoothing effect whose no-data branch leaves the history buffer
SmoothingEffectKeepHistory ==
    /\ smoothingPending
    /\ smoothingPending' = FALSE
    /\ IF rawGazePoint = Null
       THEN /\ smoothedGaze' = Null
            /\ smoothedGazeRef' = Null
            /\ gazeHistoryRef' = gazeHistoryRef
            \* the tick effect is re-created only when smoothedGaze changes
            /\ rafPending' = (rafPending \/ smoothedGaze # Null)
            /\ rafQueued' = IF smoothedGaze # Null
                            THEN RequestFrame(CancelFrame(rafQueued))
                            ELSE rafQueued
       ELSE LET history == PushHistory(gazeHistoryRef, rawGazePoint[1])
                smoothed == Smooth(smoothedGazeRef, history)
            IN  /\ gazeHistoryRef' = history
                /\ smoothedGazeRef' = Some(smoothed)
                /\ smoothedGaze' = Some(smoothed)
                /\ rafPending' = TRUE
                \* the effect cleanup cancels the queued callback, the effect requests one
                /\ rafQueued' = RequestFrame(CancelFrame(rafQueued))
    /\ lastTick' = NoTick
    /\ UNCHANGED <<now, running, isCalibrating, rawGazePoint, activeKeyId, isFixating,
                   txt, onResultInstalled, samples, keyState, sigmaRef, lastFrameTime,
                   trackingVars>>
    /\ carried' = Carry(carried, keyState', lastTick')

SmoothingEffect ==
    /\ smoothingPending
    /\ smoothingPending' = FALSE
    /\ IF rawGazePoint = Null
       THEN /\ smoothedGaze' = Null
            /\ smoothedGazeRef' = Null
            /\ gazeHistoryRef' = <<>>
            \* the tick effect is re-created only when smoothedGaze changes
            /\ rafPending' = (rafPending \/ smoothedGaze # Null)
            /\ rafQueued' = IF smoothedGaze # Null
                            THEN RequestFrame(CancelFrame(rafQueued))
                            ELSE rafQueued
       ELSE LET history == PushHistory(gazeHistoryRef, rawGazePoint[1])
                smoothed == Smooth(smoothedGazeRef, history)
            IN  /\ gazeHistoryRef' = history
                /\ smoothedGazeRef' = Some(smoothed)
                /\ smoothedGaze' = Some(smoothed)
                /\ rafPending' = TRUE
                \* the effect cleanup cancels the queued callback, the effect requests one
                /\ rafQueued' = RequestFrame(CancelFrame(rafQueued))
    /\ lastTick' = NoTick
    /\ UNCHANGED <<now, running, isCalibrating, rawGazePoint, activeKeyId, isFixating,
                   txt, onResultInstalled, samples, keyState, sigmaRef, lastFrameTime,
                   trackingVars>>
    /\ carried' = Carry(carried, keyState', lastTick')

(***************************************************************************)
(* handleClear, lines 774-796.  The button is rendered only while not      *)
(* calibrating (line 805).                                                 *)
(***************************************************************************)
\* the per-key reset that keeps what was learned from the selections
ClearKeyStateKeepPriors(ks) ==
    [id \in KeyIds |-> [ks[id] EXCEPT !.interest = Zero, !.lastPosterior = Zero]]

ClearKeyState(ks) ==
    [id \in KeyIds |->
        [ks[id] EXCEPT !.interest = Zero, !.selectionCount = 0,
                       !.prior = Norm(1, N), !.lastPosterior = Zero]]

HandleClear ==
    /\ ~isCalibrating
    /\ txt' = <<>>
    /\ previousActiveKeyRef' = NoKey
    /\ lastGazeRef' = Null
    /\ smoothedVelocityRef' = Zero
    /\ fixationStartTimeRef' = NullTime
    /\ isFixatingRef' = FALSE
    /\ gazeHistoryRef' = <<>>
    /\ currentKeyDwellStartRef' = NullTime
    /\ keyState' = ClearKeyState(keyState)
    /\ lastTick' = NoTick
    /\ UNCHANGED <<now, running, isCalibrating, rawGazePoint, smoothedGaze,
                   activeKeyId, isFixating, smoothingPending, rafPending, rafQueued,
                   onResultInstalled, samples, smoothedGazeRef, sigmaRef,
                   lastFrameTime>>
    /\ carried' = Carry(carried, keyState', lastTick')

(***************************************************************************)
(* handleTypeKey, lines 733-768, with no spelling suggestion available     *)
(***************************************************************************)
HandleTypeKey(text, k) ==
    IF k.role = "space-left" THEN Append(text, " ")
    ELSE IF k.role = "space-suggest" THEN Append(text, " ")
    ELSE IF k.special
         THEN IF k.id = "r3-back"
              THEN (IF text = <<>> THEN text ELSE SubSeq(text, 1, Len(text) - 1))
              ELSE IF k.id = "r4-enter" THEN Append(text, "\n")
              ELSE text
    ELSE Append(text, k.label)

(***************************************************************************)
(* triggerSelection, lines 684-727                                         *)
(***************************************************************************)
RECURSIVE SumCounts(_, _)
SumCounts(ks, i) ==
    IF i = 0 THEN 0 ELSE SumCounts(ks, i - 1) + ks[ALL_KEYS[i].id].selectionCount

\* the selection without the count of the selected key
SelectKeyNoCount(ks, sel) ==
    [id \in KeyIds |->
        IF id = sel
        THEN [ks[id] EXCEPT !.interest = Zero]
        ELSE [ks[id] EXCEPT !.interest = RMul(@, SELECTION_DAMPING)]]

\* the selection without the damping of the other keys
SelectKeyNoDamping(ks, sel) ==
    [id \in KeyIds |->
        IF id = sel
        THEN [ks[id] EXCEPT !.interest = Zero, !.selectionCount = @ + 1]
        ELSE ks[id]]

\* the selection that leaves the selected key's interest in place
SelectKeyKeepInterest(ks, sel) ==
    [id \in KeyIds |->
        IF id = sel
        THEN [ks[id] EXCEPT !.selectionCount = @ + 1]
        ELSE [ks[id] EXCEPT !.interest = RMul(@, SELECTION_DAMPING)]]

\* lines 690-693 and 702-706: zero the selected key and count it, damp the others
SelectKey(ks, sel) ==
    [id \in KeyIds |->
        IF id = sel
        THEN [ks[id] EXCEPT !.interest = Zero, !.selectionCount = @ + 1]
        ELSE [ks[id] EXCEPT !.interest = RMul(@, SELECTION_DAMPING)]]

\* the update with the denominator left at its initial value
UpdatePriorsFixedDenominator(ks) ==
    [id \in KeyIds |->
        [ks[id] EXCEPT !.prior = Norm(PRIOR_K + ks[id].selectionCount, PRIOR_K * N)]]

\* lines 708-722: the Dirichlet update of every prior
UpdatePriors(ks) ==
    LET sumCounts == SumCounts(ks, N)
        denominator == PRIOR_K * N + sumCounts
    IN  [id \in KeyIds |->
            [ks[id] EXCEPT !.prior = Norm(PRIOR_K + ks[id].selectionCount, denominator)]]

\* the priors recomputed before the count is incremented
TriggerSelectionPriorsFirst(ks, sel) == SelectKey(UpdatePriors(ks), sel)

TriggerSelection(ks, sel) == UpdatePriors(SelectKey(ks, sel))

(***************************************************************************)
(* The tick, lines 347-674: its steps as operators                         *)
(***************************************************************************)
\* Math.hypot; exact when the displacement is along one axis, otherwise
\* rounded down to a whole number
RECURSIVE IsqrtFrom(_, _)
IsqrtFrom(n, r) == IF (r + 1) * (r + 1) > n THEN r ELSE IsqrtFrom(n, r + 1)
Hypot(dx, dy) ==
    IF dy[1] = 0 THEN RAbs(dx)
    ELSE IF dx[1] = 0 THEN RAbs(dy)
    ELSE FromInt(IsqrtFrom(RFloor(RAdd(RMul(dx, dx), RMul(dy, dy))), 0))

\* the time delta with the two instants exchanged
ActualDtReversed(nowT, last) == RMin(Seconds(last - nowT), MAX_DT)

\* the time delta without the clamp
ActualDtUnclamped(nowT, last) == Seconds(nowT - last)

\* lines 353-354
ActualDt(nowT, last) == RMin(Seconds(nowT - last), MAX_DT)

\* lines 376-393
IsGazeOnKeyboard(ks, gaze) ==
    LET firstKey == ks[ALL_KEYS[1].id]
        lastKey == ks[ALL_KEYS[N].id]
    IN  IF firstKey.rect # Null /\ lastKey.rect # Null
        THEN LET f == firstKey.rect[1]
                 l == lastKey.rect[1]
                 left == Min(f.left, l.left) - BOUNDS_MARGIN
                 right == Max(RectRight(f), RectRight(l)) + BOUNDS_MARGIN
                 top == Min(f.top, l.top) - BOUNDS_MARGIN
                 bottom == Max(RectBottom(f), RectBottom(l)) + BOUNDS_MARGIN
             IN  /\ RLeq(FromInt(left), gaze.x)
                 /\ RLeq(gaze.x, FromInt(right))
                 /\ RLeq(FromInt(top), gaze.y)
                 /\ RLeq(gaze.y, FromInt(bottom))
        ELSE FALSE

\* a non-negative value kept to two decimals, rounded toward zero
Hundredths(x) ==
    Norm((x[1] \div x[2]) * 100 + ((x[1] % x[2]) * 100) \div x[2], 100)

\* lines 414-429: the smoothed velocity after this tick, and currentVelocity;
\* velocities are kept to two decimals
SmoothedVelocity(gaze, lastGaze, velocity, nowT) ==
    IF lastGaze # Null /\ nowT - lastGaze[1].time > 0
    THEN LET dx == RSub(gaze.x, lastGaze[1].x)
             dy == RSub(gaze.y, lastGaze[1].y)
             dt == Seconds(nowT - lastGaze[1].time)
             instantVelocity == Hundredths(RDiv(Hypot(dx, dy), dt))
         IN  Hundredths(RAdd(RMul(VELOCITY_SMOOTHING_ALPHA, instantVelocity),
                             RMul(RSub(One, VELOCITY_SMOOTHING_ALPHA), velocity)))
    ELSE velocity

CurrentVelocity(gaze, lastGaze, velocity, nowT) ==
    IF lastGaze # Null /\ nowT - lastGaze[1].time > 0
    THEN SmoothedVelocity(gaze, lastGaze, velocity, nowT)
    ELSE Zero

\* line 434
IsLowVelocity(currentVelocity) == RLess(currentVelocity, FromInt(VELOCITY_THRESHOLD))

\* lines 436-446: the fixation timer and flag
FixationStart(isLow, start, nowT) ==
    IF isLow THEN (IF ~Truthy(start) THEN nowT ELSE start) ELSE NullTime

\* the flag raised as soon as the velocity is low, without the timer
FixatingAtOnce(isLow, start, nowT) == isLow

Fixating(isLow, start, nowT) ==
    /\ isLow
    /\ RLeq(MIN_FIXATION_DURATION, Seconds(nowT - FixationStart(isLow, start, nowT)))

\* the decay by the earlier, milder factor
ScanDecayMild(ks, isLow) ==
    IF isLow THEN ks
    ELSE [id \in KeyIds |-> [ks[id] EXCEPT !.interest = RMul(@, Norm(17, 20))]]

\* lines 447-454: the decay of every interest on a high-velocity tick
ScanDecay(ks, isLow) ==
    IF isLow THEN ks
    ELSE [id \in KeyIds |-> [ks[id] EXCEPT !.interest = RMul(@, SCAN_DECAY)]]

\* lines 490-493
IsSpecialKey(key) == key.special \/ key.role = "space-left" \/ key.role = "space-suggest"

\* lines 500-502
EffectivePrior(key, prior) ==
    IF IsSpecialKey(key) THEN RMax(prior, SPECIAL_KEY_MIN_PRIOR) ELSE prior

\* Math.exp(-dist^2 / (2 sigma^2)) by ranges of its argument, the distance
\* taken in whole pixels and the argument in steps of one half:
\*   up to 5      the value to two decimals, from the table;
\*   5.5 to 23.5  a value between 4e-11 and 0.005, represented by the least
\*                positive step, 0.01;
\*   from 24      a value below 4e-11, represented by 0: the weighted sum
\*                of such values over the keys is below 1e-10.
ExpTable == <<100, 61, 37, 22, 14, 8, 5, 3, 2, 1, 1>>
EXP_TAIL == <<1, 100>>
NEGLIGIBLE_FROM == 48
Gaussian(dist, sigma) ==
    LET px == RFloor(dist)
        halfSteps == RFloor(RDiv(FromInt(px * px), RMul(sigma, sigma)))
    IN  IF halfSteps + 1 <= Len(ExpTable) THEN Norm(ExpTable[halfSteps + 1], 100)
        ELSE IF halfSteps < NEGLIGIBLE_FROM THEN EXP_TAIL
        ELSE Zero

\* lines 470-496: the likelihood of one key that has a rectangle
Likelihood(key, rect, gaze, currentActiveKey, baseSigma) ==
    LET centerX == RAdd(FromInt(rect.left), Norm(rect.width, 2))
        centerY == RAdd(FromInt(rect.top), Norm(rect.height, 2))
        dist == Hypot(RSub(gaze.x, centerX), RSub(gaze.y, centerY))
        effectiveSigma ==
            IF key.id = currentActiveKey
            THEN RMul(baseSigma, ACTIVE_KEY_SIGMA_EXPANSION)
            ELSE baseSigma
        likelihood == Gaussian(dist, effectiveSigma)
    IN  IF IsSpecialKey(key) THEN RMul(likelihood, SPECIAL_KEY_LIKELIHOOD_BOOST)
        ELSE likelihood

\* lines 463-505; a key without a rectangle has no entry, read back as 0 (line 523)
Likelihoods(ks, gaze, currentActiveKey, baseSigma) ==
    [id \in KeyIds |->
        IF ks[id].rect = Null THEN Zero
        ELSE Likelihood(KeyDefOf(id), ks[id].rect[1], gaze, currentActiveKey, baseSigma)]

\* the sum weighted by the stored priors, without the special-key floor
RECURSIVE TotalStoredPriorLikelihood(_, _, _)
TotalStoredPriorLikelihood(ks, likelihoods, i) ==
    IF i = 0 THEN Zero
    ELSE LET key == ALL_KEYS[i]
             rest == TotalStoredPriorLikelihood(ks, likelihoods, i - 1)
         IN  IF ks[key.id].rect = Null THEN rest
             ELSE RAdd(rest, RMul(likelihoods[key.id], ks[key.id].prior))

\* lines 464, 500-504: the weighted sum over the keys that have a rectangle
RECURSIVE TotalWeightedLikelihood(_, _, _)
TotalWeightedLikelihood(ks, likelihoods, i) ==
    IF i = 0 THEN Zero
    ELSE LET key == ALL_KEYS[i]
             rest == TotalWeightedLikelihood(ks, likelihoods, i - 1)
         IN  IF ks[key.id].rect = Null THEN rest
             ELSE RAdd(rest, RMul(likelihoods[key.id],
                                  EffectivePrior(key, ks[key.id].prior)))

\* a uniform posterior in place of the division by 1e-10
PosteriorUniformWhenDegenerate(weighted, total) ==
    IF BelowEpsilon(total) THEN Norm(1, N) ELSE RDiv(weighted, total)

\* lines 507-509 and 533-534: the division by the floored sum
Posterior(weighted, total) ==
    IF BelowEpsilon(total) THEN DivByEpsilon(weighted) ELSE RDiv(weighted, total)

\* lines 519-536
Posteriors(ks, likelihoods, total) ==
    [id \in KeyIds |->
        Posterior(RMul(likelihoods[id], EffectivePrior(KeyDefOf(id), ks[id].prior)),
                  total)]

\* the running maximum that a later key with an equal posterior replaces
RECURSIVE BestKeyLastWins(_, _)
BestKeyLastWins(posteriors, i) ==
    IF i = 0 THEN [id |-> NoKey, maxPosterior |-> Zero]
    ELSE LET before == BestKeyLastWins(posteriors, i - 1)
             posterior == posteriors[ALL_KEYS[i].id]
         IN  IF RLeq(before.maxPosterior, posterior)
             THEN [id |-> ALL_KEYS[i].id, maxPosterior |-> posterior]
             ELSE before

\* lines 515-516, 538-545: the running maximum over the keys in layout order
RECURSIVE BestKey(_, _)
BestKey(posteriors, i) ==
    IF i = 0 THEN [id |-> NoKey, maxPosterior |-> Zero]
    ELSE LET before == BestKey(posteriors, i - 1)
             posterior == posteriors[ALL_KEYS[i].id]
         IN  IF RLess(before.maxPosterior, posterior)
             THEN [id |-> ALL_KEYS[i].id, maxPosterior |-> posterior]
             ELSE before

PosteriorOf(posteriors, id) == IF id = NoKey THEN Zero ELSE posteriors[id]

\* lines 557-565
PassesHysteresis(posteriors, bestKeyId, currentActiveKey) ==
    RLeq(HYSTERESIS_THRESHOLD,
         RSub(PosteriorOf(posteriors, bestKeyId), PosteriorOf(posteriors, currentActiveKey)))

\* the switch without the minimum dwell
PassesMinDwellAlways(dwellStart, nowT) == TRUE

PassesMinDwell(dwellStart, nowT) ==
    IF Truthy(dwellStart) THEN RLeq(MIN_DWELL_BEFORE_SWITCH, Seconds(nowT - dwellStart))
    ELSE TRUE

\* lines 550-570
FinalActiveKeyId(posteriors, bestKeyId, currentActiveKey, dwellStart, nowT) ==
    IF currentActiveKey # NoKey /\ currentActiveKey # bestKeyId
    THEN IF ~PassesHysteresis(posteriors, bestKeyId, currentActiveKey)
            \/ ~PassesMinDwell(dwellStart, nowT)
         THEN currentActiveKey
         ELSE bestKeyId
    ELSE bestKeyId

\* the switching step that zeroes the interests whatever the fixation flag
SwitchResetIgnoringFixation(ks, currentActiveKey, bestKeyId, finalActiveKeyId, previousKey, fixating) ==
    LET leaving ==
            /\ currentActiveKey # NoKey
            /\ currentActiveKey # bestKeyId
            /\ finalActiveKeyId # currentActiveKey
        entering ==
            /\ finalActiveKeyId # previousKey
            /\ finalActiveKeyId # NoKey
    IN  [id \in KeyIds |->
            IF (leaving /\ id = currentActiveKey) \/ (entering /\ id = finalActiveKeyId)
            THEN [ks[id] EXCEPT !.interest = Zero]
            ELSE ks[id]]

\* lines 571-575 and 583-589: interest zeroed on a key change while not fixating
SwitchReset(ks, currentActiveKey, bestKeyId, finalActiveKeyId, previousKey, fixating) ==
    LET leaving ==
            /\ currentActiveKey # NoKey
            /\ currentActiveKey # bestKeyId
            /\ finalActiveKeyId # currentActiveKey
            /\ ~fixating
        entering ==
            /\ finalActiveKeyId # previousKey
            /\ finalActiveKeyId # NoKey
            /\ ~fixating
    IN  [id \in KeyIds |->
            IF (leaving /\ id = currentActiveKey) \/ (entering /\ id = finalActiveKeyId)
            THEN [ks[id] EXCEPT !.interest = Zero]
            ELSE ks[id]]

\* the accumulation over every key, whatever key is tracked
AccumulateAllKeys(ks, posteriors, finalActiveKeyId, fixating, actualDt) ==
    [id \in KeyIds |->
        IF fixating
        THEN [ks[id] EXCEPT !.interest = RAdd(@, RMul(actualDt, posteriors[id]))]
        ELSE ks[id]]

\* a tick that accumulates nothing
AccumulateNone(ks, posteriors, finalActiveKeyId, fixating, actualDt) == ks

\* lines 598-610
Accumulate(ks, posteriors, finalActiveKeyId, fixating, actualDt) ==
    [id \in KeyIds |->
        IF fixating /\ id = finalActiveKeyId
        THEN [ks[id] EXCEPT !.interest = RAdd(@, RMul(actualDt, posteriors[id]))]
        ELSE ks[id]]

\* the posterior stored together with the floored prior used for weighting
StorePosteriorsAndFloor(ks, posteriors) ==
    [id \in KeyIds |->
        [ks[id] EXCEPT !.lastPosterior = posteriors[id],
                       !.prior = EffectivePrior(KeyDefOf(id), @)]]

\* line 536
StorePosteriors(ks, posteriors) ==
    [id \in KeyIds |-> [ks[id] EXCEPT !.lastPosterior = posteriors[id]]]

\* the selection test against a lower threshold
ShouldSelectAtHalf(ks, finalActiveKeyId, fixating) ==
    /\ fixating
    /\ finalActiveKeyId # NoKey
    /\ RLeq(Norm(1, 2), ks[finalActiveKeyId].interest)

\* the threshold check with a strict comparison
ShouldSelectStrictlyAbove(ks, finalActiveKeyId, fixating) ==
    /\ fixating
    /\ finalActiveKeyId # NoKey
    /\ RLess(SELECTION_THRESHOLD, ks[finalActiveKeyId].interest)

\* lines 659-666
ShouldSelect(ks, finalActiveKeyId, fixating) ==
    /\ fixating
    /\ finalActiveKeyId # NoKey
    /\ RLeq(SELECTION_THRESHOLD, ks[finalActiveKeyId].interest)

\* the no-gaze branch that also zeroes every interest
TickNoGazeResetInterest(nowT) ==
    /\ activeKeyId' = NoKey
    /\ previousActiveKeyRef' = NoKey
    /\ lastGazeRef' = Null
    /\ smoothedVelocityRef' = Zero
    /\ fixationStartTimeRef' = NullTime
    /\ isFixatingRef' = FALSE
    /\ lastTick' = [NoTick EXCEPT !.branch = "nogaze",
                                  !.actualDt = ActualDt(nowT, lastFrameTime),
                                  !.currentActiveKey = previousActiveKeyRef,
                                  !.dwellStart = currentKeyDwellStartRef]
    /\ keyState' = ResetInterest(keyState)
    /\ UNCHANGED <<txt, isFixating, currentKeyDwellStartRef>>

(***************************************************************************)
(* The tick as a whole.  Each branch sets the refs and the React state the *)
(* tick can change; a value computed once in the code is bound once here,  *)
(* as the only element of a set.                                           *)
(***************************************************************************)
\* lines 357-366: calibrating, or no smoothed gaze
TickNoGaze(nowT) ==
    /\ activeKeyId' = NoKey
    /\ previousActiveKeyRef' = NoKey
    /\ lastGazeRef' = Null
    /\ smoothedVelocityRef' = Zero
    /\ fixationStartTimeRef' = NullTime
    /\ isFixatingRef' = FALSE
    /\ lastTick' = [NoTick EXCEPT !.branch = "nogaze",
                                  !.actualDt = ActualDt(nowT, lastFrameTime),
                                  !.currentActiveKey = previousActiveKeyRef,
                                  !.dwellStart = currentKeyDwellStartRef]
    /\ UNCHANGED <<keyState, txt, isFixating, currentKeyDwellStartRef>>

\* the out-of-bounds branch without the reset of the interest
TickOutOfBoundsKeepInterest(nowT) ==
    /\ keyState' = keyState
    /\ activeKeyId' = NoKey
    /\ previousActiveKeyRef' = NoKey
    /\ currentKeyDwellStartRef' = NullTime
    /\ isFixating' = FALSE
    /\ lastTick' = [NoTick EXCEPT !.branch = "out",
                                  !.actualDt = ActualDt(nowT, lastFrameTime),
                                  !.currentActiveKey = previousActiveKeyRef,
                                  !.dwellStart = currentKeyDwellStartRef]
    /\ UNCHANGED <<txt, lastGazeRef, smoothedVelocityRef, fixationStartTimeRef,
                   isFixatingRef>>

\* lines 395-409: the gaze is outside the keyboard
TickOutOfBounds(nowT) ==
    /\ keyState' = ResetInterest(keyState)
    /\ activeKeyId' = NoKey
    /\ previousActiveKeyRef' = NoKey
    /\ currentKeyDwellStartRef' = NullTime
    /\ isFixating' = FALSE
    /\ lastTick' = [NoTick EXCEPT !.branch = "out",
                                  !.actualDt = ActualDt(nowT, lastFrameTime),
                                  !.currentActiveKey = previousActiveKeyRef,
                                  !.dwellStart = currentKeyDwellStartRef]
    /\ UNCHANGED <<txt, lastGazeRef, smoothedVelocityRef, fixationStartTimeRef,
                   isFixatingRef>>

\* lines 646-654: the key reported as active
DisplayKeyId(posteriors, finalActiveKeyId) ==
    IF finalActiveKeyId # NoKey
       /\ RLess(MIN_POSTERIOR_FOR_FEEDBACK, PosteriorOf(posteriors, finalActiveKeyId))
    THEN finalActiveKeyId
    ELSE NoKey

\* the inference tick whose selection leaves the tracking refs as they are
TickInferKeepTracking(nowT) ==
    \E gaze \in {smoothedGaze[1]}, currentActiveKey \in {previousActiveKeyRef},
       actualDt \in {ActualDt(nowT, lastFrameTime)} :
    \E velocity \in {SmoothedVelocity(gaze, lastGazeRef, smoothedVelocityRef, nowT)},
       isLow \in {IsLowVelocity(CurrentVelocity(gaze, lastGazeRef,
                                                smoothedVelocityRef, nowT))} :
    \E fixating \in {Fixating(isLow, fixationStartTimeRef, nowT)},
       decayed \in {ScanDecay(keyState, isLow)} :
    \E likelihoods \in {Likelihoods(decayed, gaze, currentActiveKey, sigmaRef)} :
    \E total \in {TotalWeightedLikelihood(decayed, likelihoods, N)} :
    \E posteriors \in {Posteriors(decayed, likelihoods, total)} :
    \E bestKeyId \in {BestKey(posteriors, N).id} :
    \E finalActiveKeyId \in {FinalActiveKeyId(posteriors, bestKeyId, currentActiveKey,
                                              currentKeyDwellStartRef, nowT)} :
    \E switched \in {SwitchReset(StorePosteriors(decayed, posteriors), currentActiveKey,
                                 bestKeyId, finalActiveKeyId, previousActiveKeyRef,
                                 fixating)} :
    \E accumulated \in {Accumulate(switched, posteriors, finalActiveKeyId, fixating,
                                   actualDt)} :
    \E select \in {ShouldSelect(accumulated, finalActiveKeyId, fixating)} :
        /\ lastGazeRef' = Some([x |-> gaze.x, y |-> gaze.y, time |-> nowT])
        /\ smoothedVelocityRef' = velocity
        /\ isFixating' = fixating
        /\ activeKeyId' = DisplayKeyId(posteriors, finalActiveKeyId)
        /\ lastTick' =
               [branch |-> "infer", actualDt |-> actualDt,
                currentActiveKey |-> currentActiveKey,
                dwellStart |-> currentKeyDwellStartRef, isLowVelocity |-> isLow,
                total |-> total, posteriors |-> posteriors, bestKeyId |-> bestKeyId,
                finalActiveKeyId |-> finalActiveKeyId, fixating |-> fixating,
                selected |-> IF select THEN finalActiveKeyId ELSE NoKey]
        /\ IF select
           THEN \* the selection without the reset of the tracking refs
                /\ keyState' = TriggerSelection(accumulated, finalActiveKeyId)
                /\ txt' = HandleTypeKey(txt, KeyDefOf(finalActiveKeyId))
                /\ previousActiveKeyRef' = finalActiveKeyId
                /\ fixationStartTimeRef' = FixationStart(isLow, fixationStartTimeRef, nowT)
                /\ isFixatingRef' = fixating
                /\ currentKeyDwellStartRef' =
                       IF finalActiveKeyId # previousActiveKeyRef THEN nowT
                       ELSE currentKeyDwellStartRef
           ELSE /\ keyState' = accumulated
                /\ txt' = txt
                /\ previousActiveKeyRef' = finalActiveKeyId
                /\ fixationStartTimeRef' = FixationStart(isLow, fixationStartTimeRef, nowT)
                /\ isFixatingRef' = fixating
                /\ currentKeyDwellStartRef' =
                       IF finalActiveKeyId # previousActiveKeyRef THEN nowT
                       ELSE currentKeyDwellStartRef

\* lines 411-671: velocity, fixation, likelihood, posterior, tracking,
\* accumulation and selection
TickInfer(nowT) ==
    \E gaze \in {smoothedGaze[1]}, currentActiveKey \in {previousActiveKeyRef},
       actualDt \in {ActualDt(nowT, lastFrameTime)} :
    \E velocity \in {SmoothedVelocity(gaze, lastGazeRef, smoothedVelocityRef, nowT)},
       isLow \in {IsLowVelocity(CurrentVelocity(gaze, lastGazeRef,
                                                smoothedVelocityRef, nowT))} :
    \E fixating \in {Fixating(isLow, fixationStartTimeRef, nowT)},
       decayed \in {ScanDecay(keyState, isLow)} :
    \E likelihoods \in {Likelihoods(decayed, gaze, currentActiveKey, sigmaRef)} :
    \E total \in {TotalWeightedLikelihood(decayed, likelihoods, N)} :
    \E posteriors \in {Posteriors(decayed, likelihoods, total)} :
    \E bestKeyId \in {BestKey(posteriors, N).id} :
    \E finalActiveKeyId \in {FinalActiveKeyId(posteriors, bestKeyId, currentActiveKey,
                                              currentKeyDwellStartRef, nowT)} :
    \E switched \in {SwitchReset(StorePosteriors(decayed, posteriors), currentActiveKey,
                                 bestKeyId, finalActiveKeyId, previousActiveKeyRef,
                                 fixating)} :
    \E accumulated \in {Accumulate(switched, posteriors, finalActiveKeyId, fixating,
                                   actualDt)} :
    \E select \in {ShouldSelect(accumulated, finalActiveKeyId, fixating)} :
        /\ lastGazeRef' = Some([x |-> gaze.x, y |-> gaze.y, time |-> nowT])
        /\ smoothedVelocityRef' = velocity
        /\ isFixating' = fixating
        /\ activeKeyId' = DisplayKeyId(posteriors, finalActiveKeyId)
        /\ lastTick' =
               [branch |-> "infer", actualDt |-> actualDt,
                currentActiveKey |-> currentActiveKey,
                dwellStart |-> currentKeyDwellStartRef, isLowVelocity |-> isLow,
                total |-> total, posteriors |-> posteriors, bestKeyId |-> bestKeyId,
                finalActiveKeyId |-> finalActiveKeyId, fixating |-> fixating,
                selected |-> IF select THEN finalActiveKeyId ELSE NoKey]
        /\ IF select
           THEN \* triggerSelection, lines 684-727
                /\ keyState' = TriggerSelection(accumulated, finalActiveKeyId)
                /\ txt' = HandleTypeKey(txt, KeyDefOf(finalActiveKeyId))
                /\ previousActiveKeyRef' = NoKey
                /\ fixationStartTimeRef' = NullTime
                /\ isFixatingRef' = FALSE
                /\ currentKeyDwellStartRef' = NullTime
           ELSE /\ keyState' = accumulated
                /\ txt' = txt
                /\ previousActiveKeyRef' = finalActiveKeyId
                /\ fixationStartTimeRef' = FixationStart(isLow, fixationStartTimeRef, nowT)
                /\ isFixatingRef' = fixating
                /\ currentKeyDwellStartRef' =
                       IF finalActiveKeyId # previousActiveKeyRef THEN nowT
                       ELSE currentKeyDwellStartRef

\* the frame callback that runs the inference during calibration as well
TickIgnoringCalibration(delta, limit) ==
    /\ rafPending
    /\ running
    /\ now + delta <= limit
    /\ \A id \in KeyIds : keyState[id].interest[2] <= MaxDenominator
    /\ now' = now + delta
    /\ lastFrameTime' = now + delta
    /\ IF smoothedGaze = Null THEN TickNoGaze(now + delta)
       ELSE IF ~IsGazeOnKeyboard(keyState, smoothedGaze[1])
            THEN TickOutOfBounds(now + delta)
       ELSE TickInfer(now + delta)
    \* line 364, 407, 673: the next frame is requested
    /\ rafPending' = TRUE
    /\ rafQueued' = RequestFrame(rafQueued - 1)
    /\ UNCHANGED <<running, isCalibrating, rawGazePoint, smoothedGaze, smoothingPending,
                   onResultInstalled, samples, smoothedGazeRef, gazeHistoryRef, sigmaRef>>
    /\ carried' = Carry(carried, keyState', lastTick')

\* the frame callback while running, lines 347-674
Tick(delta, limit) ==
    /\ rafPending
    /\ running
    /\ now + delta <= limit
    /\ \A id \in KeyIds : keyState[id].interest[2] <= MaxDenominator
    /\ now' = now + delta
    /\ lastFrameTime' = now + delta
    /\ IF isCalibrating \/ smoothedGaze = Null THEN TickNoGaze(now + delta)
       ELSE IF ~IsGazeOnKeyboard(keyState, smoothedGaze[1])
            THEN TickOutOfBounds(now + delta)
       ELSE TickInfer(now + delta)
    \* line 364, 407, 673: the next frame is requested
    /\ rafPending' = TRUE
    /\ rafQueued' = RequestFrame(rafQueued - 1)
    /\ UNCHANGED <<running, isCalibrating, rawGazePoint, smoothedGaze, smoothingPending,
                   onResultInstalled, samples, smoothedGazeRef, gazeHistoryRef, sigmaRef>>
    /\ carried' = Carry(carried, keyState', lastTick')

\* the frame callback while not running, lines 348-351: it returns at once
\* and requests no further frame
TickStopped ==
    /\ rafPending
    /\ ~running
    /\ rafPending' = FALSE
    /\ rafQueued' = rafQueued - 1
    /\ lastTick' = [NoTick EXCEPT !.branch = "stopped"]
    /\ UNCHANGED <<now, running, isCalibrating, rawGazePoint, smoothedGaze,
                   activeKeyId, isFixating, txt, smoothingPending, onResultInstalled,
                   samples, keyState, smoothedGazeRef, gazeHistoryRef, sigmaRef,
                   lastFrameTime, trackingVars>>
    /\ carried' = Carry(carried, keyState', lastTick')

Next ==
    \/ Start
    \/ CalibrationComplete
    \/ Stop
    \/ UpdateSigma
    \/ \E d \in GazeResults : OnResult(d, MaxSamples)
    \/ SmoothingEffect
    \/ HandleClear
    \/ \E delta \in TickDeltas : Tick(delta, MaxTime)
    \/ TickStopped

Spec == Init /\ [][Next]_vars

\* the same program with frames 0.06 s apart
NextFine ==
    \/ Start
    \/ CalibrationComplete
    \/ Stop
    \/ UpdateSigma
    \/ \E d \in GazeResults : OnResult(d, MaxSamples)
    \/ SmoothingEffect
    \/ HandleClear
    \/ \E delta \in FineDeltas : Tick(delta, MaxTimeFine)
    \/ TickStopped

SpecFine == Init /\ [][NextFine]_vars

\* the same program over a longer time, with fewer gaze results
NextLong ==
    \/ Start
    \/ CalibrationComplete
    \/ Stop
    \/ UpdateSigma
    \/ \E d \in GazeResults : OnResult(d, MaxSamplesLong)
    \/ SmoothingEffect
    \/ HandleClear
    \/ \E delta \in TickDeltas : Tick(delta, MaxTimeLong)
    \/ TickStopped

SpecLong == Init /\ [][NextLong]_vars

(***************************************************************************)
(* An uninterrupted dwell: key A is tracked and fixated with interest 0,   *)
(* the frames are 1/60 s apart and the posterior of A is 1 in every tick.  *)
(* The ticks apply the accumulation and the threshold check of the frame   *)
(* callback, lines 598-671, to these inputs.                               *)
(***************************************************************************)
\* interest the other keys hold when the dwell starts
HeldInterests == {Zero, Norm(1, 10)}

InitDwell ==
    /\ now = MountTime
    /\ running = TRUE
    /\ isCalibrating = FALSE
    /\ rawGazePoint = Some(PointKey)
    /\ smoothedGaze = Some(PointKey)
    /\ activeKeyId \in KeyIds
    /\ isFixating = TRUE
    /\ txt = <<>>
    /\ smoothingPending = FALSE
    /\ rafPending = TRUE
    /\ rafQueued = 1
    /\ onResultInstalled = TRUE
    /\ samples = 0
    /\ \E held \in HeldInterests :
          keyState = [id \in KeyIds |->
                         [UpdateKeyRects(InitialKeyState)[id] EXCEPT
                              !.interest = IF id = activeKeyId THEN Zero ELSE held]]
    /\ smoothedGazeRef = Some(PointKey)
    /\ gazeHistoryRef = <<PointKey>>
    /\ sigmaRef = FromInt(DEFAULT_SIGMA)
    /\ lastFrameTime = MountTime
    /\ previousActiveKeyRef = activeKeyId
    /\ lastGazeRef = Some([x |-> PointKey.x, y |-> PointKey.y, time |-> MountTime])
    /\ smoothedVelocityRef = Zero
    /\ fixationStartTimeRef = MountTime
    /\ isFixatingRef = TRUE
    /\ currentKeyDwellStartRef = MountTime
    /\ lastTick = NoTick
    /\ carried = {}

\* lines 353-355 and 598-671 of the frame callback, for a tick that keeps
\* fixating the tracked key with posterior 1
DwellTick(delta) ==
    /\ rafPending
    /\ running
    /\ previousActiveKeyRef # NoKey
    /\ isFixatingRef
    /\ now + delta <= MaxTimeDwell
    /\ now' = now + delta
    /\ lastFrameTime' = now + delta
    /\ \E finalActiveKeyId \in {previousActiveKeyRef},
          actualDt \in {ActualDt(now + delta, lastFrameTime)} :
       \E posteriors \in {[id \in KeyIds |-> IF id = finalActiveKeyId THEN One ELSE Zero]} :
       \E accumulated \in {Accumulate(StorePosteriors(keyState, posteriors), posteriors,
                                      finalActiveKeyId, TRUE, actualDt)} :
       \E select \in {ShouldSelect(accumulated, finalActiveKeyId, TRUE)} :
           /\ lastTick' =
                  [branch |-> "dwell", actualDt |-> actualDt,
                   currentActiveKey |-> finalActiveKeyId,
                   dwellStart |-> currentKeyDwellStartRef, isLowVelocity |-> TRUE,
                   total |-> One, posteriors |-> posteriors,
                   bestKeyId |-> finalActiveKeyId,
                   finalActiveKeyId |-> finalActiveKeyId, fixating |-> TRUE,
                   selected |-> IF select THEN finalActiveKeyId ELSE NoKey]
           /\ IF select
              THEN \* triggerSelection, lines 684-727
                   /\ keyState' = TriggerSelection(accumulated, finalActiveKeyId)
                   /\ txt' = HandleTypeKey(txt, KeyDefOf(finalActiveKeyId))
                   /\ previousActiveKeyRef' = NoKey
                   /\ fixationStartTimeRef' = NullTime
                   /\ isFixatingRef' = FALSE
                   /\ currentKeyDwellStartRef' = NullTime
              ELSE /\ keyState' = accumulated
                   /\ UNCHANGED <<txt, previousActiveKeyRef, fixationStartTimeRef,
                                  isFixatingRef, currentKeyDwellStartRef>>
    /\ rafPending' = TRUE
    /\ rafQueued' = RequestFrame(rafQueued - 1)
    /\ UNCHANGED <<running, isCalibrating, rawGazePoint, smoothedGaze, activeKeyId,
                   isFixating, smoothingPending, onResultInstalled, samples,
                   smoothedGazeRef, gazeHistoryRef, sigmaRef, lastGazeRef,
                   smoothedVelocityRef>>
    /\ carried' = Carry(carried, keyState', lastTick')

NextDwell == DwellTick(FrameUnits)

SpecDwell == InitDwell /\ [][NextDwell]_vars

(***************************************************************************)
(* The running, calibrated engine with one key whose rectangle was never   *)
(* cached (updateKeyRects, line 177, skips a key that has no element).     *)
(* The frame callback, the gaze results, the smoothing effect and Clear    *)
(* run as in Spec; nothing caches the missing rectangle.                   *)
(***************************************************************************)
InitGeometry ==
    /\ now = MountTime
    /\ running = TRUE
    /\ isCalibrating = FALSE
    /\ rawGazePoint = Null
    /\ smoothedGaze = Null
    /\ activeKeyId = NoKey
    /\ isFixating = FALSE
    /\ txt = <<>>
    /\ smoothingPending = FALSE
    /\ rafPending = TRUE
    /\ rafQueued = 1
    /\ onResultInstalled = TRUE
    /\ samples = 0
    /\ \E missing \in KeyIds :
          keyState = [id \in KeyIds |->
                         IF id = missing THEN InitialKeyState[id]
                         ELSE UpdateKeyRects(InitialKeyState)[id]]
    /\ smoothedGazeRef = Null
    /\ gazeHistoryRef = <<>>
    /\ sigmaRef = FromInt(DEFAULT_SIGMA)
    /\ lastFrameTime = MountTime
    /\ previousActiveKeyRef = NoKey
    /\ lastGazeRef = Null
    /\ smoothedVelocityRef = Zero
    /\ fixationStartTimeRef = NullTime
    /\ isFixatingRef = FALSE
    /\ currentKeyDwellStartRef = NullTime
    /\ lastTick = NoTick
    /\ carried = {}

NextGeometry ==
    \/ \E d \in GazeResults : OnResult(d, MaxSamples)
    \/ SmoothingEffect
    \/ HandleClear
    \/ \E delta \in TickDeltas : Tick(delta, MaxTimeFine)

SpecGeometry == InitGeometry /\ [][NextGeometry]_vars

(***************************************************************************)
(* Frames 1/60 s apart from the mounted component, with enough samples for *)
(* the smoothed gaze to settle near the edge of the keyboard, leave it and *)
(* come back.                                                              *)
(***************************************************************************)
MaxSamplesExcursion == 5

MaxTimeExcursion == 530

NextExcursion ==
    \/ Start
    \/ CalibrationComplete
    \/ \E d \in GazeResults : OnResult(d, MaxSamplesExcursion)
    \/ SmoothingEffect
    \/ Tick(FrameUnits, MaxTimeExcursion)

SpecExcursion == Init /\ [][NextExcursion]_vars

(***************************************************************************)
(* The frame loop under fair scheduling: the browser runs a requested      *)
(* frame callback at the next frame, so a tick that stays ready is taken.  *)
(* The frame callback is the only step that advances the clock, and it can *)
(* run whenever its guard holds, so the fairness is stated on the clock    *)
(* step under that guard.                                                  *)
(***************************************************************************)
MaxTimeLive == 5070

\* lines 347-351 and 673: a requested frame callback of the running engine
TickReady(delta, limit) ==
    /\ rafPending
    /\ running
    /\ now + delta <= limit
    /\ \A id \in KeyIds : keyState[id].interest[2] <= MaxDenominator

\* line 353: the frame callback reads the clock, which has advanced
TickClock == \E delta \in TickDeltas : TickReady(delta, MaxTimeLive) /\ now' = now + delta

NextLive ==
    \/ Start
    \/ CalibrationComplete
    \/ \E d \in GazeResults : OnResult(d, MaxSamplesLong)
    \/ SmoothingEffect
    \/ \E delta \in TickDeltas : Tick(delta, MaxTimeLive)

SpecLive == Init /\ [][NextLive]_vars /\ WF_now(TickClock)

(***************************************************************************)
(* A session in which the gaze can dwell on one key, move to a second key  *)
(* until it is selected and return to the first.  It starts from the state *)
(* that UpdateSigma, Start and CalibrationComplete lead to from Init: the  *)
(* kernel width set from the key size, the engine running and calibrated,  *)
(* every rectangle cached, no gaze result delivered yet.  Four gaze        *)
(* results arrive over sixteen frames.                                     *)
(***************************************************************************)
MaxSamplesReturn == 4

MaxTimeReturn == 5790

InitReturn ==
    /\ now = MountTime
    /\ running = TRUE
    /\ isCalibrating = FALSE
    /\ rawGazePoint = Null
    /\ smoothedGaze = Null
    /\ activeKeyId = NoKey
    /\ isFixating = FALSE
    /\ txt = <<>>
    /\ smoothingPending = FALSE
    /\ rafPending = TRUE
    /\ rafQueued = 1
    /\ onResultInstalled = TRUE
    /\ samples = 0
    /\ keyState = UpdateKeyRects(InitialKeyState)
    /\ smoothedGazeRef = Null
    /\ gazeHistoryRef = <<>>
    /\ sigmaRef = RMul(FromInt(Min(DomRect(ALL_KEYS[1].id).width,
                                   DomRect(ALL_KEYS[1].id).height)), SIGMA_RATIO)
    /\ lastFrameTime = MountTime
    /\ previousActiveKeyRef = NoKey
    /\ lastGazeRef = Null
    /\ smoothedVelocityRef = Zero
    /\ fixationStartTimeRef = NullTime
    /\ isFixatingRef = FALSE
    /\ currentKeyDwellStartRef = NullTime
    /\ lastTick = NoTick
    /\ carried = {}

NextReturn ==
    \/ \E d \in GazeResults : OnResult(d, MaxSamplesReturn)
    \/ SmoothingEffect
    \/ \E delta \in TickDeltas : Tick(delta, MaxTimeReturn)

SpecReturn == InitReturn /\ [][NextReturn]_vars

(***************************************************************************)
(* Properties                                                              *)
(***************************************************************************)
RECURSIVE SumPriors(_, _)
SumPriors(ks, i) ==
    IF i = 0 THEN Zero ELSE RAdd(SumPriors(ks, i - 1), ks[ALL_KEYS[i].id].prior)

RECURSIVE SumPosteriors(_, _)
SumPosteriors(posteriors, i) ==
    IF i = 0 THEN Zero ELSE RAdd(SumPosteriors(posteriors, i - 1), posteriors[ALL_KEYS[i].id])

\* the last step was a tick that reached the inference
Inferred == lastTick.branch = "infer"
\* the last step was a tick that fired a selection
Selected == lastTick.selected # NoKey
\* the weighted likelihood sum of the last tick was below 1e-10
Degenerate == Inferred /\ BelowEpsilon(lastTick.total)

\* C1: in every reachable state the stored priors of all keys sum to exactly 1.
C1_PriorsSumToOne == SumPriors(keyState, N) = One

C1_Witness == SumCounts(keyState, N) = 2 /\ SumPriors(keyState, N) = One

\* C2: a selection on key A adds one to A's count and then recomputes every
\* prior from the counts after the increment, prior_i = (k + c_i) / (k N + sum c);
\* from all-zero counts A's prior becomes 2 / (N + 1) and every other 1 / (N + 1).
C2_PriorsFromNewCounts ==
    [][lastTick'.selected # NoKey =>
        LET sel == lastTick'.selected
            denominator == PRIOR_K * N + SumCounts(keyState', N)
        IN  \A id \in KeyIds :
                /\ keyState'[id].selectionCount =
                       keyState[id].selectionCount + (IF id = sel THEN 1 ELSE 0)
                /\ keyState'[id].prior[1] * denominator =
                       keyState'[id].prior[2] * (PRIOR_K + keyState'[id].selectionCount)
                /\ SumCounts(keyState, N) = 0 =>
                       keyState'[id].prior = IF id = sel THEN Norm(2, N + 1)
                                             ELSE Norm(1, N + 1)]_vars

C2_Witness ==
    /\ Selected
    /\ SumCounts(keyState, N) = 1
    /\ keyState[lastTick.selected].prior = Norm(2, N + 1)

\* C3: on every selection the prior of the selected key strictly increases and
\* the prior of no other key increases.
C3_SelectedPriorGrows ==
    [][lastTick'.selected # NoKey =>
        \A id \in KeyIds :
            IF id = lastTick'.selected
            THEN RLess(keyState[id].prior, keyState'[id].prior)
            ELSE RLeq(keyState'[id].prior, keyState[id].prior)]_vars

C3_Witness == Selected /\ keyState[lastTick.selected].selectionCount = 2

\* C4: the interest of every key is at least 0 in every reachable state.
C4_InterestNonNegative == \A id \in KeyIds : RLeq(Zero, keyState[id].interest)

C4_Witness ==
    /\ Inferred
    /\ ~lastTick.isLowVelocity
    /\ \E id \in KeyIds : RLess(Zero, keyState[id].interest)

\* C5: right after a selection on key A the interest of A is exactly 0 and the
\* interest of every other key is exactly one half of what it was before.
C5_SelectionDampsInterest ==
    [][lastTick'.selected # NoKey =>
        \A id \in KeyIds :
            IF id = lastTick'.selected
            THEN keyState'[id].interest = Zero
            ELSE RMul(keyState'[id].interest, FromInt(2)) = keyState[id].interest]_vars

C5_Witness ==
    /\ Selected
    /\ keyState[lastTick.selected].interest = Zero
    /\ \E id \in KeyIds : RLess(Zero, keyState[id].interest)

Margin ==
    RSub(PosteriorOf(lastTick.posteriors, lastTick.bestKeyId),
         PosteriorOf(lastTick.posteriors, lastTick.currentActiveKey))

\* C8: after the switching step the tracked key is the candidate if no key was
\* tracked, or if the candidate's margin over the tracked key is at least
\* HYSTERESIS_THRESHOLD and the tracked key has been tracked for at least
\* MIN_DWELL_BEFORE_SWITCH; otherwise the tracked key is unchanged.
C8_SwitchRule ==
    Inferred =>
        lastTick.finalActiveKeyId =
            IF lastTick.currentActiveKey = NoKey THEN lastTick.bestKeyId
            ELSE IF /\ RLeq(HYSTERESIS_THRESHOLD, Margin)
                    /\ lastTick.dwellStart # NullTime
                    /\ RLeq(MIN_DWELL_BEFORE_SWITCH, Seconds(now - lastTick.dwellStart))
                 THEN lastTick.bestKeyId
            ELSE lastTick.currentActiveKey

C8_Witness ==
    /\ Inferred
    /\ lastTick.currentActiveKey # NoKey
    /\ lastTick.bestKeyId # NoKey
    /\ lastTick.bestKeyId # lastTick.currentActiveKey
    /\ RLeq(HYSTERESIS_THRESHOLD, Margin)
    /\ lastTick.finalActiveKeyId = lastTick.currentActiveKey

\* C9: a tick whose smoothed gaze is outside the keyboard bounds leaves every
\* interest at 0, no tracked key, no dwell timer and no active key, and skips
\* the rest of the pipeline: no velocity or fixation update, no posterior, no
\* accumulation, no selection, no change of a prior or a count.
C9_OutOfBoundsResets ==
    [][lastTick'.branch = "out" =>
        /\ \A id \in KeyIds :
              /\ keyState'[id].interest = Zero
              /\ keyState'[id].prior = keyState[id].prior
              /\ keyState'[id].selectionCount = keyState[id].selectionCount
              /\ keyState'[id].lastPosterior = keyState[id].lastPosterior
        /\ previousActiveKeyRef' = NoKey
        /\ currentKeyDwellStartRef' = NullTime
        /\ activeKeyId' = NoKey
        /\ lastTick'.selected = NoKey
        /\ UNCHANGED <<txt, lastGazeRef, smoothedVelocityRef, fixationStartTimeRef,
                       isFixatingRef>>]_vars

C9_Witness ==
    /\ lastTick.branch = "out"
    /\ lastTick.currentActiveKey # NoKey
    /\ isFixatingRef
    /\ \A id \in KeyIds : keyState[id].interest = Zero

\* C10: a tick fires a selection exactly when, after the accumulation, the gaze
\* is fixating, a key is tracked and the tracked key's interest is at least
\* SELECTION_THRESHOLD; the key selected is the tracked key; a tick fires at
\* most one selection.
C10_SelectionRule ==
    [][/\ lastTick'.branch = "infer" =>
            LET t == lastTick'
                crossed ==
                    /\ t.fixating
                    /\ t.finalActiveKeyId # NoKey
                    /\ RLeq(SELECTION_THRESHOLD,
                            RAdd(keyState[t.finalActiveKeyId].interest,
                                 RMul(t.actualDt, t.posteriors[t.finalActiveKeyId])))
            IN  /\ (t.selected # NoKey) <=> crossed
                /\ t.selected # NoKey => t.selected = t.finalActiveKeyId
                /\ SumCounts(keyState', N) =
                       SumCounts(keyState, N) + (IF crossed THEN 1 ELSE 0)
       /\ SumCounts(keyState', N) <= SumCounts(keyState, N) + 1
       /\ lastTick'.branch # "infer" => lastTick'.selected = NoKey]_vars

C10_Witness ==
    /\ Selected
    /\ lastTick.fixating
    /\ lastTick.selected = lastTick.finalActiveKeyId
    /\ keyState[lastTick.selected].selectionCount = 1

\* C11 as stated: in any tick only the key tracked after the switching step can
\* gain interest, by the clamped time delta times its posterior and only while
\* fixating; the interest of every other key does not increase, and on a
\* low-velocity tick it is left unchanged.
C11_OnlyTrackedKeyGains ==
    [][lastTick'.branch \in {"nogaze", "out", "infer"} =>
        LET t == lastTick'
        IN  \A id \in KeyIds :
                /\ RLess(keyState[id].interest, keyState'[id].interest) =>
                       /\ t.branch = "infer"
                       /\ t.fixating
                       /\ id = t.finalActiveKeyId
                       /\ keyState'[id].interest =
                              RAdd(keyState[id].interest,
                                   RMul(t.actualDt, t.posteriors[id]))
                /\ (t.branch = "infer" /\ t.isLowVelocity /\ id # t.finalActiveKeyId) =>
                       keyState'[id].interest = keyState[id].interest]_vars

\* C11, amended: in any tick only the key tracked after the switching step can
\* gain interest, by the clamped time delta times its posterior and only while
\* fixating; the interest of every other key does not increase, and on a
\* low-velocity tick it is left unchanged unless the tick fires a selection
\* (then it is halved) or the key is the tracked key being left while not
\* fixating (then it is zeroed).
C11_OnlyTrackedKeyGainsOthersKept ==
    [][lastTick'.branch \in {"nogaze", "out", "infer"} =>
        LET t == lastTick'
        IN  \A id \in KeyIds :
                /\ RLess(keyState[id].interest, keyState'[id].interest) =>
                       /\ t.branch = "infer"
                       /\ t.fixating
                       /\ id = t.finalActiveKeyId
                       /\ keyState'[id].interest =
                              RAdd(keyState[id].interest,
                                   RMul(t.actualDt, t.posteriors[id]))
                /\ (/\ t.branch = "infer"
                    /\ t.isLowVelocity
                    /\ id # t.finalActiveKeyId
                    /\ t.selected = NoKey
                    /\ ~(id = t.currentActiveKey /\ ~t.fixating)) =>
                       keyState'[id].interest = keyState[id].interest
                /\ (t.branch = "infer" /\ t.selected # NoKey /\ id # t.selected) =>
                       RMul(keyState'[id].interest, FromInt(2)) = keyState[id].interest
                /\ (/\ t.branch = "infer"
                    /\ id = t.currentActiveKey
                    /\ id # t.finalActiveKeyId
                    /\ ~t.fixating) =>
                       keyState'[id].interest = Zero]_vars

C11_Witness ==
    /\ Inferred
    /\ lastTick.fixating
    /\ ~Selected
    /\ RLess(Zero, keyState[lastTick.finalActiveKeyId].interest)
    /\ \E id \in KeyIds :
          id # lastTick.finalActiveKeyId /\ RLess(Zero, keyState[id].interest)

\* C12: from key A tracked and fixated with interest 0, with frames 1/60 s
\* apart and posterior(A) = 1, the selection of A fires in the 36th
\* accumulating tick and in no earlier one: the interest is accumulated
\* before the threshold is checked.
C12_SelectionInTick36 ==
    lastTick.branch = "dwell" =>
        /\ lastTick.selected # NoKey <=> now = MountTime + 36 * FrameUnits
        /\ now <= MountTime + 36 * FrameUnits
        /\ lastTick.selected \in {NoKey, lastTick.finalActiveKeyId}

C12_Witness ==
    /\ lastTick.branch = "dwell"
    /\ lastTick.selected # NoKey
    /\ now = MountTime + 36 * FrameUnits
    /\ keyState[lastTick.selected].selectionCount = 1

\* C13: immediately after every selection event the tracked key is none, the
\* dwell timer and the fixation timer are cleared and the fixation flag is
\* false, so a tick that follows starts from Idle: it finds no tracked key
\* and is not fixating.
C13_SelectionClearsTracking ==
    /\ [](Selected =>
             /\ previousActiveKeyRef = NoKey
             /\ currentKeyDwellStartRef = NullTime
             /\ fixationStartTimeRef = NullTime
             /\ ~isFixatingRef)
    /\ [][(Selected /\ lastTick'.branch = "infer") =>
             /\ lastTick'.currentActiveKey = NoKey
             /\ lastTick'.dwellStart = NullTime
             /\ ~lastTick'.fixating]_vars

C13_Witness ==
    /\ Selected
    /\ previousActiveKeyRef = NoKey
    /\ isFixating
    /\ Len(txt) > 0

\* C14 as stated: after an out-of-bounds tick the tracked key and the dwell
\* start are none, the smoothed velocity is reset, the fixation-start time is
\* none and the fixation flag is false; so the first inference tick after
\* out-of-bounds ticks (the gaze re-enters the keyboard) is not fixating.
C14_OutOfBoundsClearsTracking ==
    /\ [](lastTick.branch = "out" =>
             /\ previousActiveKeyRef = NoKey
             /\ currentKeyDwellStartRef = NullTime
             /\ smoothedVelocityRef = Zero
             /\ fixationStartTimeRef = NullTime
             /\ ~isFixatingRef)
    /\ [][(/\ lastTick'.branch = "infer"
           /\ lastGazeRef # Null
           /\ lastGazeRef[1].time # lastFrameTime) =>
              ~lastTick'.fixating]_vars

\* the tracking and smoothing state is empty and no key holds interest
EngineCleared ==
    /\ \A id \in KeyIds : keyState[id].interest = Zero
    /\ previousActiveKeyRef = NoKey
    /\ gazeHistoryRef = <<>>
    /\ smoothedGaze = Null
    /\ smoothedGazeRef = Null
    /\ currentKeyDwellStartRef = NullTime
    /\ fixationStartTimeRef = NullTime
    /\ ~isFixatingRef
    /\ smoothedVelocityRef = Zero
    /\ lastGazeRef = Null

\* C15: Stop resets the engine and halts the ticks: while stopped a frame
\* callback changes no engine state and requests no further frame, and the
\* step that starts the next run leaves every interest 0, no tracked key, the
\* history buffer and the smoothed point empty and the dwell, fixation and
\* velocity state cleared, whatever samples were delivered while stopped.
C15_StopResetsAndHalts ==
    /\ [][(running /\ ~running') => EngineCleared']_vars
    /\ [][(~running /\ lastTick'.branch # "none") =>
             /\ lastTick'.branch = "stopped"
             /\ ~rafPending'
             /\ UNCHANGED <<now, keyState, txt, activeKeyId, isFixating, rawGazePoint,
                            smoothedGaze, smoothedGazeRef, gazeHistoryRef,
                            lastFrameTime, trackingVars>>]_vars
    /\ [][(~running /\ running') => EngineCleared']_vars

\* samples delivered after Stop have refilled the smoothing state, and a
\* frame callback has returned without requesting another frame
C15_Witness ==
    /\ ~running
    /\ lastTick.branch = "stopped"
    /\ ~rafPending
    /\ smoothedGaze # Null
    /\ gazeHistoryRef # <<>>

\* C16 as stated: Stop resets the per-key runtime state: after Stop every
\* key's selectionCount is 0 and every key's prior is the uniform 1/N, so
\* the run that follows starts from uniform priors.
C16_StopResetsPriors ==
    /\ [][(running /\ ~running') =>
             \A id \in KeyIds :
                 /\ keyState'[id].selectionCount = 0
                 /\ keyState'[id].prior = UniformPrior]_vars
    /\ [][(~running /\ running') =>
             \A id \in KeyIds : keyState'[id].prior = UniformPrior]_vars

\* C17: after Clear every key's interest is 0, its selectionCount 0, its prior
\* 1/N and its lastPosterior 0, and the tracked key, the dwell timer, the
\* fixation timer and flag, the velocity state and the gaze history are
\* empty: the per-key and tracking state is the freshly initialized one,
\* the cached rectangles excepted.
C17_ClearRestoresInitialState ==
    [][HandleClear =>
          /\ \A id \in KeyIds :
                /\ keyState'[id].interest = Zero
                /\ keyState'[id].selectionCount = 0
                /\ keyState'[id].prior = Norm(1, N)
                /\ keyState'[id].lastPosterior = Zero
                /\ keyState'[id] = [InitialKeyState[id] EXCEPT !.rect = keyState[id].rect]
          /\ previousActiveKeyRef' = NoKey
          /\ currentKeyDwellStartRef' = NullTime
          /\ fixationStartTimeRef' = NullTime
          /\ ~isFixatingRef'
          /\ smoothedVelocityRef' = Zero
          /\ lastGazeRef' = Null
          /\ gazeHistoryRef' = <<>>]_vars

\* Clear was pressed while a key was fixated: the rendered flag still shows
\* the fixation, the smoothed point is there, and the history buffer, the
\* tracking refs and the per-key state are those of a fresh engine
C17_Witness ==
    /\ running
    /\ lastTick = NoTick
    /\ isFixating
    /\ activeKeyId # NoKey
    /\ smoothedGaze # Null
    /\ gazeHistoryRef = <<>>
    /\ ~isFixatingRef
    /\ previousActiveKeyRef = NoKey
    /\ \A id \in KeyIds :
          keyState[id] = [InitialKeyState[id] EXCEPT !.rect = keyState[id].rect]

\* C18 as stated: an invalid or absent sample clears the history buffer and
\* the smoothed point before any later sample is smoothed, for every
\* interleaving of deliveries and processing: a valid sample that replaces a
\* no-data sample finds the history buffer and the smoothed point empty.
C18_LossClearsBeforeNextSample ==
    [][(rawGazePoint = Null /\ rawGazePoint' # Null) =>
          (gazeHistoryRef = <<>> /\ smoothedGazeRef = Null)]_vars

\* C18, amended: the smoothing step that runs while the latest sample is a
\* no-data sample clears the history buffer and the smoothed point, and the
\* valid sample smoothed next seeds the smoothed point from that sample
\* alone; a valid sample that replaces a no-data sample already processed
\* finds the smoothing state empty.  (A no-data sample replaced before the
\* smoothing step has run clears nothing.)
C18_ProcessedLossClearsSmoothing ==
    /\ [][SmoothingEffect =>
             /\ rawGazePoint = Null =>
                   /\ smoothedGaze' = Null
                   /\ smoothedGazeRef' = Null
                   /\ gazeHistoryRef' = <<>>
             /\ (rawGazePoint # Null /\ smoothedGazeRef = Null /\ gazeHistoryRef = <<>>) =>
                   /\ smoothedGaze' = rawGazePoint
                   /\ smoothedGazeRef' = rawGazePoint
                   /\ gazeHistoryRef' = <<rawGazePoint[1]>>]_vars
    /\ [][(rawGazePoint = Null /\ ~smoothingPending /\ rawGazePoint' # Null) =>
             (gazeHistoryRef = <<>> /\ smoothedGazeRef = Null)]_vars

\* a key was fixated, tracking was lost and the loss was smoothed, and the
\* sample that followed (a point outside the keyboard) alone makes the
\* smoothed point and the history buffer
C18_Witness ==
    /\ isFixatingRef
    /\ previousActiveKeyRef # NoKey
    /\ ~smoothingPending
    /\ rawGazePoint = Some(PointOut)
    /\ smoothedGaze = rawGazePoint
    /\ gazeHistoryRef = <<PointOut>>

\* C19: a tick of the running loop that finds no smoothed point runs no
\* inference: it computes no likelihood sum and no posterior, changes no
\* key's interest, prior, selection count or stored posterior, fires no
\* selection, reports no active key, and requests the next frame.
C19_NoGazeTickInfersNothing ==
    [][(running /\ smoothedGaze = Null /\ lastTick'.branch # "none") =>
          /\ lastTick'.branch = "nogaze"
          /\ lastTick'.total = Zero
          /\ lastTick'.posteriors = ZeroByKey
          /\ lastTick'.bestKeyId = NoKey
          /\ lastTick'.selected = NoKey
          /\ keyState' = keyState
          /\ txt' = txt
          /\ activeKeyId' = NoKey
          /\ previousActiveKeyRef' = NoKey
          /\ rafPending']_vars

\* tracking was lost while a key held interest: the tick that found no
\* smoothed point has left that interest in place
C19_Witness ==
    /\ lastTick.branch = "nogaze"
    /\ ~isCalibrating
    /\ smoothedGaze = Null
    /\ rafPending
    /\ activeKeyId = NoKey
    /\ \E id \in KeyIds : RLess(Zero, keyState[id].interest)

C21_NoInferenceUnlessCalibrated ==
    /\ [][(~running \/ isCalibrating) =>
             /\ lastTick'.selected = NoKey
             /\ lastTick'.branch \in {"none", "stopped", "nogaze"}
             /\ \A id \in KeyIds :
                   /\ RLeq(keyState'[id].interest, keyState[id].interest)
                   /\ keyState'[id].selectionCount <= keyState[id].selectionCount]_vars
    /\ [](Selected => (running /\ ~isCalibrating))
    /\ [](isCalibrating => running)
    /\ [][(~running /\ running') => isCalibrating']_vars
    /\ [][(isCalibrating /\ ~isCalibrating') => (running /\ running')]_vars
    /\ [][(~isCalibrating /\ isCalibrating') => ~running]_vars

\* a frame callback has run during calibration with a smoothed point inside
\* the keyboard bounds
C21_Witness ==
    /\ running
    /\ isCalibrating
    /\ lastTick.branch = "nogaze"
    /\ smoothedGaze # Null
    /\ IsGazeOnKeyboard(keyState, smoothedGaze[1])

\* the keys that have no cached rectangle
NoGeometry == {id \in KeyIds : keyState[id].rect = Null}

C23_TicksSerialized ==
    /\ [](rafQueued <= 1 /\ (rafPending <=> rafQueued = 1))
    /\ [][lastTick'.branch # "none" =>
             /\ rafQueued = 1
             /\ rafQueued' = IF running THEN 1 ELSE 0]_vars
    /\ [][(\/ running' # running
           \/ isCalibrating' # isCalibrating
           \/ smoothedGaze' # smoothedGaze) =>
             /\ lastTick'.branch = "none"
             /\ rafQueued' = 1]_vars

\* the tick loop was restarted by a new smoothed point while the callback
\* requested by the previous tick was still queued
C23_Witness ==
    /\ running
    /\ ~isCalibrating
    /\ lastFrameTime > MountTime
    /\ lastTick = NoTick
    /\ lastGazeRef # Null
    /\ smoothedGaze # Null
    /\ smoothedGaze[1].x # lastGazeRef[1].x
    /\ rafQueued = 1

\* C24: with the baseline accumulation, every in-bounds tick that runs the
\* inference adds the clamped time delta times posterior_i to the interest of
\* every key i, whichever key is tracked and whether or not the gaze is
\* fixating.
C24_EveryKeyAccumulates ==
    [][(lastTick'.branch = "infer" /\ lastTick'.selected = NoKey) =>
        \A id \in KeyIds :
            keyState'[id].interest =
                RAdd(keyState[id].interest,
                     RMul(lastTick'.actualDt, lastTick'.posteriors[id]))]_vars

\* C25: in a tick where the tracked key changes (also from none to a key)
\* while the fixation flag is false, the newly tracked key's interest is zero
\* after the tick, the interest of a key being left is zero as well, and the
\* dwell timer holds the tick's timestamp; when the fixation flag is true at
\* the switch and the tick selects nothing, the key being left keeps its
\* interest and the newly tracked key gains on top of the interest it had.
C25_SwitchResetsUnlessFixating ==
    [][(/\ lastTick'.branch = "infer"
        /\ lastTick'.finalActiveKeyId # previousActiveKeyRef) =>
        LET t == lastTick'
            new == t.finalActiveKeyId
            old == previousActiveKeyRef
            gained == RAdd(keyState[new].interest, RMul(t.actualDt, t.posteriors[new]))
        IN  /\ new # NoKey
            /\ ~t.fixating =>
                   /\ keyState'[new].interest = Zero
                   /\ old # NoKey => keyState'[old].interest = Zero
                   /\ currentKeyDwellStartRef' = now'
                   /\ previousActiveKeyRef' = new
            /\ (t.fixating /\ t.selected = NoKey) =>
                   /\ keyState'[new].interest = gained
                   /\ old # NoKey => keyState'[old].interest = keyState[old].interest
                   /\ currentKeyDwellStartRef' = now']_vars

C25_Witness ==
    /\ Inferred
    /\ ~lastTick.fixating
    /\ lastTick.currentActiveKey # NoKey
    /\ lastTick.finalActiveKeyId # lastTick.currentActiveKey
    /\ currentKeyDwellStartRef = now
    /\ keyState[lastTick.finalActiveKeyId].interest = Zero
    /\ keyState[lastTick.currentActiveKey].interest = Zero

\* the frame callback last ran its out-of-bounds branch: the last inference
\* is older than the last frame
AfterExcursion == lastGazeRef # Null /\ lastGazeRef[1].time # lastFrameTime

\* C26: the fixation flag is true after a tick only if the fixation timer has
\* run for at least MIN_FIXATION_DURATION over low-velocity ticks only; a
\* high-velocity tick, a selection and a tracking loss clear the timer, a tick
\* that finds the timer cleared neither fixates nor accumulates, and a tick
\* less than MIN_FIXATION_DURATION after an out-of-bounds tick neither fixates
\* nor accumulates.
C26_NoAccumulationBeforeMinFixation ==
    /\ [][(lastTick'.branch # "none" /\ isFixatingRef') =>
              /\ Truthy(fixationStartTimeRef')
              /\ RLeq(MIN_FIXATION_DURATION, Seconds(now' - fixationStartTimeRef'))
              /\ lastTick'.branch = "infer" => lastTick'.isLowVelocity]_vars
    /\ [][(\/ lastTick'.branch = "nogaze"
           \/ lastTick'.branch = "infer" /\ ~lastTick'.isLowVelocity
           \/ lastTick'.selected # NoKey) =>
              /\ fixationStartTimeRef' = NullTime
              /\ ~isFixatingRef']_vars
    /\ [][(lastTick'.branch = "infer" /\ ~Truthy(fixationStartTimeRef)) =>
              /\ ~lastTick'.fixating
              /\ \A id \in KeyIds : RLeq(keyState'[id].interest, keyState[id].interest)]_vars
    /\ [][(/\ AfterExcursion
           /\ lastTick'.branch = "infer"
           /\ RLess(Seconds(now' - lastFrameTime), MIN_FIXATION_DURATION)) =>
              /\ ~lastTick'.fixating
              /\ \A id \in KeyIds : RLeq(keyState'[id].interest, keyState[id].interest)]_vars

\* C27: a tick that measures a velocity at or above the threshold, also right
\* after low-velocity ticks, clears the fixation timer and the fixation flag
\* and leaves every key with 0.3 times the interest it had, or with none
\* when the switching step of the same tick zeroes it; no key's interest
\* increases in that tick and nothing is selected.
C27_HighVelocityDecays ==
    [][(lastTick'.branch = "infer" /\ ~lastTick'.isLowVelocity) =>
        LET t == lastTick'
            switched == t.finalActiveKeyId # t.currentActiveKey
        IN  /\ fixationStartTimeRef' = NullTime
            /\ ~isFixatingRef'
            /\ ~isFixating'
            /\ ~t.fixating
            /\ t.selected = NoKey
            /\ \A id \in KeyIds :
                  /\ RLeq(keyState'[id].interest, keyState[id].interest)
                  /\ \/ keyState'[id].interest = RMul(keyState[id].interest, SCAN_DECAY)
                     \/ /\ switched
                        /\ id \in {t.finalActiveKeyId, t.currentActiveKey}
                        /\ keyState'[id].interest = Zero]_vars

C27_Witness ==
    /\ Inferred
    /\ ~lastTick.isLowVelocity
    /\ fixationStartTimeRef = NullTime
    /\ lastTick.finalActiveKeyId = lastTick.currentActiveKey
    /\ RLess(Zero, keyState[lastTick.finalActiveKeyId].interest)

\* C28: the stored prior and the selection count of every key are left
\* unchanged by every step other than a selection and Clear, in particular by
\* a tick that selects nothing although it weights special keys with the
\* floored prior; a selection raises the selected key's count by one and no
\* other count; and no count decreases in a tick, a Start or a Stop.
C28_PriorsChangeOnlyOnSelection ==
    /\ [][~(HandleClear \/ lastTick'.selected # NoKey) =>
              \A id \in KeyIds :
                  /\ keyState'[id].prior = keyState[id].prior
                  /\ keyState'[id].selectionCount = keyState[id].selectionCount]_vars
    /\ [][lastTick'.selected # NoKey =>
              \A id \in KeyIds :
                  keyState'[id].selectionCount =
                      keyState[id].selectionCount
                          + (IF id = lastTick'.selected THEN 1 ELSE 0)]_vars
    /\ [][(Start \/ Stop \/ lastTick'.branch # "none") =>
              \A id \in KeyIds :
                  keyState'[id].selectionCount >= keyState[id].selectionCount]_vars

C28_Witness ==
    /\ Inferred
    /\ ~Selected
    /\ \E id \in KeyIds : keyState[id].selectionCount = 1
    /\ \E id \in KeyIds :
          /\ IsSpecialKey(KeyDefOf(id))
          /\ keyState[id].prior = Norm(PRIOR_K, PRIOR_K * N + 1)
          /\ RLess(keyState[id].prior, SPECIAL_KEY_MIN_PRIOR)

\* C29: the time delta of a tick is at most MAX_DT = 0.1 s however long the
\* pause since the previous frame, no key's interest grows by more than 0.1
\* in one tick, and a key selected in a tick held at least
\* SELECTION_THRESHOLD - 0.1 before that tick.
C29_ClampedDelta ==
    [][lastTick'.branch # "none" =>
        /\ RLeq(lastTick'.actualDt, MAX_DT)
        /\ \A id \in KeyIds :
              RLeq(keyState'[id].interest, RAdd(keyState[id].interest, MAX_DT))
        /\ lastTick'.selected # NoKey =>
              RLeq(RSub(SELECTION_THRESHOLD, MAX_DT),
                   keyState[lastTick'.selected].interest)]_vars

C29_Witness ==
    /\ Selected
    /\ lastTick.actualDt = MAX_DT
    /\ \A delta \in TickDeltas : RLess(MAX_DT, Seconds(delta))

\* the key the next tick finds with the largest posterior, lines 466-545
ArgmaxKey ==
    IF smoothedGaze = Null THEN NoKey
    ELSE LET likelihoods == Likelihoods(keyState, smoothedGaze[1], previousActiveKeyRef,
                                        sigmaRef)
             total == TotalWeightedLikelihood(keyState, likelihoods, N)
         IN  BestKey(Posteriors(keyState, likelihoods, total), N).id

\* the engine runs calibrated with a valid gaze on the keyboard, the last
\* inference measured a low velocity and key K has the largest posterior
Steady(K) ==
    /\ running
    /\ ~isCalibrating
    /\ smoothedGaze # Null
    /\ IsGazeOnKeyboard(keyState, smoothedGaze[1])
    /\ ~(Inferred /\ ~lastTick.isLowVelocity)
    /\ ArgmaxKey = K

\* ticks the clock of SpecLive must still allow for a dwell to complete
DwellTicks == 10

\* every interest is within the range the ticks of the model compute in
Representable == \A id \in KeyIds : keyState[id].interest[2] <= MaxDenominator

LayoutIndex(id) == CHOOSE i \in KeyIndex : ALL_KEYS[i].id = id

\* C31: the candidate of an inference tick has a positive posterior that no
\* key exceeds and that no key earlier in ALL_KEYS equals; a key with
\* posterior 0 is never the candidate; there is no candidate exactly when
\* every posterior is 0, and then the key tracked before the tick stays
\* tracked.
C31_CandidateIsFirstMaximum ==
    Inferred =>
        LET p == lastTick.posteriors
            best == lastTick.bestKeyId
        IN  /\ best # NoKey =>
                  /\ RLess(Zero, p[best])
                  /\ \A id \in KeyIds :
                        /\ RLeq(p[id], p[best])
                        /\ LayoutIndex(id) < LayoutIndex(best) => RLess(p[id], p[best])
            /\ best = NoKey <=> \A id \in KeyIds : p[id] = Zero
            /\ best = NoKey =>
                  /\ lastTick.finalActiveKeyId = lastTick.currentActiveKey
                  /\ previousActiveKeyRef = lastTick.currentActiveKey
                  /\ lastTick.selected = NoKey

C31_Witness ==
    /\ Inferred
    /\ lastTick.bestKeyId # NoKey
    /\ \E id \in KeyIds :
          /\ id # lastTick.bestKeyId
          /\ lastTick.posteriors[id] = lastTick.posteriors[lastTick.bestKeyId]
          /\ LayoutIndex(lastTick.bestKeyId) < LayoutIndex(id)

\* C32: in every state, so at the end of every tick, every key's interest is
\* strictly below SELECTION_THRESHOLD; a tick in which the tracked key's
\* accumulated interest reaches the threshold selects that key and leaves it
\* with interest 0, and a tick raises the interest of no key other than the
\* one it tracks.
C32_InterestBelowThreshold ==
    /\ [](\A id \in KeyIds : RLess(keyState[id].interest, SELECTION_THRESHOLD))
    /\ [][lastTick'.branch \in {"infer", "dwell"} =>
            LET t == lastTick'
                final == t.finalActiveKeyId
            IN  /\ \A id \in KeyIds :
                      RLess(keyState[id].interest, keyState'[id].interest) => id = final
                /\ (/\ t.fixating
                    /\ final # NoKey
                    /\ RLeq(SELECTION_THRESHOLD,
                            RAdd(keyState[final].interest,
                                 RMul(t.actualDt, t.posteriors[final])))) =>
                       /\ t.selected = final
                       /\ keyState'[final].interest = Zero]_vars

C32_Witness ==
    /\ Selected
    /\ lastTick.fixating
    /\ keyState[lastTick.selected].interest = Zero
    /\ \E id \in KeyIds : RLess(Zero, keyState[id].interest)

\* what triggerSelection leaves behind, lines 696-700: no tracked key, no
\* fixation timer, the flag down, no dwell timer
AfterSelectionReset ==
    /\ previousActiveKeyRef = NoKey
    /\ fixationStartTimeRef = NullTime
    /\ ~isFixatingRef
    /\ currentKeyDwellStartRef = NullTime

\* a step that is a tick of the running engine
TickStep == lastTick'.branch \in {"nogaze", "out", "infer", "dwell"}

\* the first tick that runs after a selection event: it ends with the flag
\* down, the timer of the inference restarted at this frame, no interest
\* raised and no selection fired, and the key it tracks holds no interest
TickAfterSelectionIsIdle ==
    (AfterSelectionReset /\ TickStep) =>
        LET t == lastTick'
        IN  /\ ~isFixatingRef'
            /\ ~t.fixating
            /\ t.selected = NoKey
            /\ \A id \in KeyIds : RLeq(keyState'[id].interest, keyState[id].interest)
            /\ (t.branch = "infer" /\ t.isLowVelocity) => fixationStartTimeRef' = now'
            /\ t.finalActiveKeyId # NoKey =>
                  /\ keyState'[t.finalActiveKeyId].interest = Zero
                  /\ t.finalActiveKeyId \notin carried'

\* C33 as stated: no two selection events fire in consecutive ticks; the tick
\* that follows a selection event ends with the fixation flag false and the
\* fixation timer restarted, accumulates no interest and fires no selection;
\* and every later selected key has had interest 0 since that selection event,
\* so that it re-accumulated the whole threshold.
C33_NextSelectionFromZero ==
    /\ [](Selected => AfterSelectionReset)
    /\ [][TickAfterSelectionIsIdle]_vars
    /\ [][lastTick'.selected # NoKey => lastTick'.selected \notin carried]_vars

\* C33, amended: no two selection events fire in consecutive ticks; the tick
\* that follows a selection event ends with the fixation flag false and the
\* fixation timer restarted, accumulates no interest and fires no selection,
\* and the key tracked in that tick restarts from interest 0 (a key that is
\* not tracked in it keeps the half of its interest that the selection left).
C33_TrackedKeyRestartsFromZero ==
    /\ [](Selected => AfterSelectionReset)
    /\ [][TickAfterSelectionIsIdle]_vars

C33_Witness ==
    /\ Inferred
    /\ lastTick.currentActiveKey = NoKey
    /\ lastTick.dwellStart = NullTime
    /\ ~lastTick.fixating
    /\ fixationStartTimeRef = now
    /\ lastTick.finalActiveKeyId # NoKey
    /\ keyState[lastTick.finalActiveKeyId].selectionCount > 0
    /\ keyState[lastTick.finalActiveKeyId].interest = Zero
    /\ carried # {}
====
